---- MODULE Spec2Model ----
(***************************************************************************)
(* Model of the syringe-pump layer of PhysioMonitor                        *)
(* (src/pumps/SyringePumps.py) and of the bolus logic of DrugPumpPanel     *)
(* (src/GUI/GUI.py).                                                       *)
(*                                                                         *)
(* Numbers.  A Python float is modelled by the integer number of           *)
(* thousandths it holds: 2.5 is 2500, 14.0 mm is 14000, 5000 uL is         *)
(* 5000000.  Every input of the model is a multiple of 0.001 and no input  *)
(* is an exact decimal tie of a later rounding, so the integer arithmetic  *)
(* below gives the digits that Python's float formatting gives.            *)
(*                                                                         *)
(* Text.  A wire string is a sequence of one-character strings, so that    *)
(* slicing ([:5], [:-2], [-2:]) and parsing are computed, not assumed.     *)
(***************************************************************************)
EXTENDS Integers, Sequences, FiniteSets, TLC

VARIABLES
    vendor,     \* the adapter class in use: key of AVAIL_PUMP_MODULES
    dev,        \* the pump: DummyPump's fields, or the state of the device on the line
    prev,       \* the pump-API call before the last one: [op, a, b, exc, val]
    last,       \* the last pump-API call: [op, a, b, exc, val, sent]
    line,       \* bytes read so far by read_until in answer to one command
    timedOut,   \* whether the read of that answer ran into the serial timeout
    answer,     \* outcome of AladdinPump.send_command on that answer
    gui,        \* the GUI thread: the handler of DrugPumpPanel it is in, its locals
    watcher,    \* the thread running wait_for_end_of_injection, its arguments
    io,         \* per thread: a pump call of it has written and not yet returned
    ui,         \* widgets of DrugPumpPanel: dose buttons, perfusion button
    hist,       \* bookkeeping on the current bolus, for the properties only
    address,    \* the address the adapter was constructed with (module-args)
    boot,       \* StartDialog.__init__ bringing one pump up: its locals
    wire,       \* the texts written to the transport by the adapter under bring-up
    elite,      \* Harvard11ElitePump's fields _state, _stalled, _target_reached
    inject      \* DrugPumpPanel seen handler by handler: every watcher thread
                \* started, the PumpTimer, the pump's bolus_rate

vars ==
    <<vendor, dev, prev, last, line, timedOut, answer, gui, watcher, io, ui, hist,
      address, boot, wire, elite, inject>>

pumpVars == <<vendor, dev, prev, last>>

parseVars == <<line, timedOut, answer>>

panelVars == <<gui, watcher, io, ui, hist, inject>>

startVars == <<address, boot, wire, elite>>

-----------------------------------------------------------------------------
(* Text and number helpers                                                 *)

DigitChars == <<"0", "1", "2", "3", "4", "5", "6", "7", "8", "9">>

IsDigit(c) == \E i \in 1..10 : DigitChars[i] = c

DigitVal(c) == (CHOOSE i \in 1..10 : DigitChars[i] = c) - 1

RECURSIVE DecDigits(_)
\* the decimal digits of a natural number, as "%d" prints them
DecDigits(n) ==
    IF n < 10 THEN <<DigitChars[n + 1]>>
    ELSE Append(DecDigits(n \div 10), DigitChars[(n % 10) + 1])

RECURSIVE DigitsVal(_)
\* the number a run of decimal digits stands for (0 for the empty run)
DigitsVal(s) ==
    IF s = <<>> THEN 0
    ELSE DigitsVal(SubSeq(s, 1, Len(s) - 1)) * 10 + DigitVal(s[Len(s)])

\* "%.3f" of the float holding m thousandths: integer part, point, 3 decimals
Fixed3(m) ==
    DecDigits(m \div 1000)
        \o <<".">>
        \o <<DigitChars[((m \div 100) % 10) + 1],
             DigitChars[((m \div 10) % 10) + 1],
             DigitChars[(m % 10) + 1]>>

\* "%5.4f" of the float holding m thousandths: 4 decimals, never cut
Fixed4(m) == Fixed3(m) \o <<"0">>

\* float(text): thousandths held by a decimal text with at most 3 decimals
ParseFloat(s) ==
    LET dots == {i \in 1..Len(s) : s[i] = "."}
        p    == IF dots = {} THEN Len(s) + 1
                ELSE CHOOSE i \in dots : \A j \in dots : i <= j
        frac == SubSeq(SubSeq(s, p + 1, Len(s)) \o <<"0", "0", "0">>, 1, 3)
    IN  DigitsVal(SubSeq(s, 1, p - 1)) * 1000 + DigitsVal(frac)

\* value * 1e-3 as "%.3f" then sees it: thousandths of the scaled value
Scale1em3(m) == (m + 500) \div 1000

\* value * 1e3
Scale1e3(m) == m * 1000

\* AladdinPump.format_float: "{:05.3f}".format(val)[:5]
format_float(m) == SubSeq(Fixed3(m), 1, 5)

-----------------------------------------------------------------------------
(* Values shared by the adapters                                           *)

None == "None"

NoExc == "none"

\* SyringePump.STATE members; an IntEnum member equals no Python str
STOPPED == "STATE.STOPPED"

INFUSING == "STATE.INFUSING"

WITHDRAWING == "STATE.WITHDRAWING"

\* the STATE a stored direction / a status letter stands for
StateOf(x) ==
    IF x \in {"INF", "I"} THEN INFUSING
    ELSE IF x \in {"WDR", "W"} THEN WITHDRAWING
    ELSE STOPPED

Running(d) == d.status \in {"I", "W"}

\* Python's True and False, as the value a call returns
PyTrue == "True"
PyFalse == "False"
PyBool(b) == IF b THEN PyTrue ELSE PyFalse

\* SyringePump.UNITS, upper-cased as get_units compares them
UNITS == <<"ML/HR", "ML/MIN", "UL/HR", "UL/MIN">>

\* AladdinPump.__ANS_UNITS, in the order of UNITS
ANS_UNITS == << <<"M", "H">>, <<"M", "M">>, <<"U", "H">>, <<"U", "M">> >>

\* the diameter, in thousandths of a mm, above which volumes travel in mL
ThresholdDiameter == 14000

\* outcome of one pump-API call: the device after it, what it raised or
\* returned, and the commands it wrote to the transport, in order
Outcome(d, exc, val, sent) == [dev |-> d, exc |-> exc, val |-> val, sent |-> sent]

Cmd(tok, arg) == [tok |-> tok, arg |-> arg]

Contains(s, c) == \E i \in 1..Len(s) : s[i] = c

\* t in s, for texts
HasSub(s, t) == \E i \in 1..(Len(s) - Len(t) + 1) : SubSeq(s, i, i + Len(t) - 1) = t

\* s[-n:]
LastN(s, n) == SubSeq(s, Len(s) - n + 1, Len(s))

\* s[:-n]
DropLastN(s, n) == SubSeq(s, 1, Len(s) - n)

-----------------------------------------------------------------------------
(* The device behind AladdinPump (NE-1000 family), as the adapter's        *)
(* parsing of its answers presumes it: it keeps what it is sent and        *)
(* reports it back as a float of at most 5 characters followed by a        *)
(* two-letter unit.                                                        *)

\* the device's rendering of a stored float
AlaDevFloat(m) == SubSeq(Fixed3(m), 1, 5)

\* the status field of the answer frame: the status letter, or "A?" and
\* the alarm's letter (S, a stalled motor, stands for all of them: the
\* adapter looks for "A?" only) while the device is in alarm
AlaStatus(d) == IF d.status = "A" THEN <<"A", "?", "S">> ELSE <<d.status>>

\* One command executed by the device: its new state and the message of
\* its answer.  obeys = FALSE is a device that does not act on RUN or STP
\* (jammed, switched to local mode, ...).  In alarm it executes nothing
\* and answers with the alarm status alone.
AlaExec(d, cmd, obeys) ==
    IF d.status = "A" THEN [dev |-> d, msg |-> <<>>]
    ELSE
    CASE cmd.tok = "DIA" /\ cmd.arg = <<>> ->
            [dev |-> d, msg |-> AlaDevFloat(d.diam)]
      [] cmd.tok = "VOL" /\ cmd.arg = <<>> ->
            [dev |-> d,
             msg |-> AlaDevFloat(d.target)
                        \o (IF d.diam <= ThresholdDiameter
                            THEN <<"U", "L">> ELSE <<"M", "L">>)]
      [] cmd.tok = "VOL" /\ cmd.arg # <<>> ->
            [dev |-> [d EXCEPT !.target = ParseFloat(cmd.arg)], msg |-> <<>>]
      [] cmd.tok = "RAT" /\ cmd.arg = <<>> ->
            [dev |-> d, msg |-> AlaDevFloat(d.rate) \o ANS_UNITS[d.units + 1]]
      [] cmd.tok = "RAT" /\ cmd.arg # <<>> ->
            [dev |-> [d EXCEPT
                        !.rate = ParseFloat(DropLastN(cmd.arg, 2)),
                        !.units = (CHOOSE i \in 1..4 :
                                      ANS_UNITS[i] = LastN(cmd.arg, 2)) - 1],
             msg |-> <<>>]
      [] cmd.tok = "DIR" /\ cmd.arg = <<>> ->
            [dev |-> d,
             msg |-> IF d.dir = "INF" THEN <<"I", "N", "F">> ELSE <<"W", "D", "R">>]
      [] cmd.tok = "DIR" /\ cmd.arg # <<>> ->
            LET nd == IF cmd.arg = <<"I", "N", "F">> THEN "INF"
                      ELSE IF cmd.arg = <<"W", "D", "R">> THEN "WDR"
                      ELSE IF d.dir = "INF" THEN "WDR" ELSE "INF"
            IN  [dev |-> [d EXCEPT !.dir = nd,
                                   !.status = IF d.status \in {"I", "W"}
                                              THEN (IF nd = "INF" THEN "I" ELSE "W")
                                              ELSE d.status],
                 msg |-> <<>>]
      [] cmd.tok = "RUN" ->
            [dev |-> IF obeys
                     THEN [d EXCEPT !.status = IF d.dir = "INF" THEN "I" ELSE "W"]
                     ELSE d,
             msg |-> <<>>]
      [] cmd.tok = "STP" ->
            [dev |-> IF obeys
                     THEN [d EXCEPT !.status =
                             IF d.status \in {"I", "W"} THEN "P" ELSE "S"]
                     ELSE d,
             msg |-> <<>>]
      [] OTHER -> [dev |-> d, msg |-> <<>>]

\* AladdinPump.send_command on a well-formed answer frame: the alarm and
\* error checks that follow parse()
AlaSend(d, cmd, obeys) ==
    LET Got(r, status) ==
            [dev    |-> r.dev,
             status |-> status,
             msg    |-> r.msg,
             exc    |-> IF HasSub(status, <<"A", "?">>) THEN "Alarm"
                        ELSE IF Contains(r.msg, "?")
                             THEN IF HasSub(r.msg, <<"?", "O", "O", "R">>) THEN "ValueOOR"
                                  ELSE IF HasSub(r.msg, <<"?", "N", "A">>)
                                       THEN "InvalidCommand"
                                  ELSE "Unforeseen"
                        ELSE NoExc]
        Answered(r) == Got(r, AlaStatus(r.dev))
    IN  Answered(AlaExec(d, cmd, obeys))

\* get_diameter_mm as it would be if it wrote its command again after an
\* exception
AlaGetDiameterAgain(d) ==
    LET c == Cmd("DIA", <<>>)
        Again(r) ==
            IF r.exc # NoExc THEN Outcome(r.dev, r.exc, None, <<c, c>>)
            ELSE Outcome(r.dev, NoExc, ParseFloat(r.msg), <<c, c>>)
        Got(r) ==
            IF r.exc # NoExc THEN Again(AlaSend(r.dev, c, TRUE))
            ELSE Outcome(r.dev, NoExc, ParseFloat(r.msg), <<c>>)
    IN  Got(AlaSend(d, c, TRUE))

\* AladdinPump.get_diameter_mm
AlaGetDiameter(d) ==
    LET c == Cmd("DIA", <<>>)
        Got(r) ==
            IF r.exc # NoExc THEN Outcome(r.dev, r.exc, None, <<c>>)
            ELSE Outcome(r.dev, NoExc, ParseFloat(r.msg), <<c>>)
    IN  Got(AlaSend(d, c, TRUE))

\* AladdinPump.set_target_volume_uL
AlaSetTargetVolume(d, value) ==
    IF value < 0 THEN Outcome(d, "ValueOOR", None, <<>>)
    ELSE LET Written(g, c, w) == Outcome(w.dev, w.exc, None, g.sent \o <<c>>)
             Write(g, c) == Written(g, c, AlaSend(g.dev, c, TRUE))
             Got(g) ==
                 IF g.exc # NoExc THEN g
                 ELSE Write(g, Cmd("VOL", format_float(IF g.val > ThresholdDiameter
                                                       THEN Scale1em3(value)
                                                       ELSE value)))
         IN  Got(AlaGetDiameter(d))

\* AladdinPump.get_target_volume_uL
AlaGetTargetVolume(d) ==
    LET c == Cmd("VOL", <<>>)
        Got(r) ==
            IF r.exc # NoExc THEN Outcome(r.dev, r.exc, None, <<c>>)
            ELSE LET volume == ParseFloat(DropLastN(r.msg, 2))
                     units  == LastN(r.msg, 2)
                 IN  Outcome(r.dev, NoExc,
                             IF units[1] \in {"M", "m"} THEN Scale1e3(volume) ELSE volume,
                             <<c>>)
    IN  Got(AlaSend(d, c, TRUE))

\* AladdinPump.clear_target_volume: "VOL%s\r" % 0.0
AlaClearTargetVolume(d) ==
    LET c == Cmd("VOL", <<"0", ".", "0">>)
        Got(r) ==
            Outcome(r.dev, r.exc, None, <<c>>)
    IN  Got(AlaSend(d, c, TRUE))

\* AladdinPump.set_rate
AlaSetRate(d, value, units) ==
    IF value <= 0 THEN Outcome(d, "ValueOOR", None, <<>>)
    ELSE IF units < 0 \/ units > Len(UNITS) - 1 THEN Outcome(d, "ValueOOR", None, <<>>)
    ELSE LET c == Cmd("RAT", format_float(value) \o ANS_UNITS[units + 1])
             Got(r) ==
                 IF r.exc # NoExc THEN Outcome(r.dev, r.exc, None, <<c>>)
                 ELSE IF Contains(r.msg, "?")
                      THEN Outcome(r.dev, "InvalidCommand", None, <<c>>)
                 ELSE Outcome(r.dev, NoExc, None, <<c>>)
         IN  Got(AlaSend(d, c, TRUE))

\* AladdinPump.get_rate: float(ans[:-3])
AlaGetRate(d) ==
    LET c == Cmd("RAT", <<>>)
        Got(r) ==
            IF r.exc # NoExc THEN Outcome(r.dev, r.exc, None, <<c>>)
            ELSE Outcome(r.dev, NoExc, ParseFloat(DropLastN(r.msg, 3)), <<c>>)
    IN  Got(AlaSend(d, c, TRUE))

\* AladdinPump.get_units: index of ans[-2:] in __ANS_UNITS
AlaGetUnits(d) ==
    LET c == Cmd("RAT", <<>>)
        Got(r) ==
            IF r.exc # NoExc THEN Outcome(r.dev, r.exc, None, <<c>>)
            ELSE IF \A i \in 1..4 : ANS_UNITS[i] # LastN(r.msg, 2)
                 THEN Outcome(r.dev, "InvalidAnswer", None, <<c>>)
            ELSE Outcome(r.dev, NoExc,
                         (CHOOSE i \in 1..4 : ANS_UNITS[i] = LastN(r.msg, 2)) - 1,
                         <<c>>)
    IN  Got(AlaSend(d, c, TRUE))

\* AladdinPump.start
AlaStart(d, obeys) ==
    LET c == Cmd("RUN", <<"1">>)
        Got(r) ==
            IF r.exc # NoExc THEN Outcome(r.dev, r.exc, None, <<c>>)
            ELSE IF HasSub(r.status, <<"A", "?">>) THEN Outcome(r.dev, "Alarm", None, <<c>>)
            ELSE IF ~(Contains(r.status, "I") \/ Contains(r.status, "W"))
                 THEN Outcome(r.dev, "Unforeseen", None, <<c>>)
            ELSE Outcome(r.dev, NoExc, None, <<c>>)
    IN  Got(AlaSend(d, c, obeys))

\* AladdinPump.stop
AlaStop(d, obeys) ==
    LET c == Cmd("STP", <<>>)
        Got(r) ==
            IF r.exc # NoExc THEN Outcome(r.dev, r.exc, None, <<c>>)
            ELSE IF HasSub(r.status, <<"A", "?">>) THEN Outcome(r.dev, "AladdinAlarm", None, <<c>>)
            ELSE IF Contains(r.status, "?") THEN Outcome(r.dev, "AladdinError", None, <<c>>)
            ELSE IF ~Contains(r.status, "P") THEN Outcome(r.dev, "Unforeseen", None, <<c>>)
            ELSE Outcome(r.dev, NoExc, None, <<c>>)
    IN  Got(AlaSend(d, c, obeys))

\* AladdinPump.is_running
AlaIsRunning(d) ==
    LET c == Cmd("", <<>>)
        Got(r) ==
            IF r.exc # NoExc THEN Outcome(r.dev, r.exc, None, <<c>>)
            ELSE Outcome(r.dev, NoExc, PyBool(r.status = <<"I">> \/ r.status = <<"W">>), <<c>>)
    IN  Got(AlaSend(d, c, TRUE))

\* AladdinPump.get_direction
AlaGetDirection(d) ==
    LET c == Cmd("DIR", <<>>)
        Got(run, r) ==
            IF r.exc # NoExc THEN Outcome(r.dev, r.exc, None, run.sent \o <<c>>)
            ELSE IF r.msg = <<"I", "N", "F">>
                 THEN Outcome(r.dev, NoExc, INFUSING, run.sent \o <<c>>)
            ELSE IF r.msg = <<"W", "D", "R">>
                 THEN Outcome(r.dev, NoExc, WITHDRAWING, run.sent \o <<c>>)
            ELSE Outcome(r.dev, "InvalidAnswer", None, run.sent \o <<c>>)
        Asked(run) ==
            IF run.exc # NoExc THEN run
            ELSE IF run.val = PyTrue THEN Got(run, AlaSend(run.dev, c, TRUE))
            ELSE Outcome(run.dev, NoExc, STOPPED, run.sent)
    IN  Asked(AlaIsRunning(d))

\* AladdinPump.set_direction
AlaSetDirection(d, value) ==
    IF value \in {INFUSING, WITHDRAWING}
    THEN LET c == Cmd("DIR", IF value = INFUSING THEN <<"I", "N", "F">>
                             ELSE <<"W", "D", "R">>)
             Got(r) ==
                 Outcome(r.dev, r.exc, None, <<c>>)
         IN  Got(AlaSend(d, c, TRUE))
    ELSE Outcome(d, "InvalidCommand", None, <<>>)

\* AladdinPump.reverse
AlaReverse(d) ==
    LET c == Cmd("DIR", <<"R", "E", "V">>)
        Got(r) ==
            Outcome(r.dev, r.exc, None, <<c>>)
    IN  Got(AlaSend(d, c, TRUE))

-----------------------------------------------------------------------------
(* DummyPump: the pump is the object's own fields                          *)
(*   dev.status = currState, dev.dir = currDir, dev.rate = currRate,       *)
(*   dev.units = currUnits, dev.target = targetVolume, dev.diam =          *)
(*   currDiameter, dev.timers = the singleShot timers start() has armed     *)
(*   and that have not fired yet                                           *)

\* DummyPump.set_syringe_diameter_mm
DummySetDiameter(d, value) ==
    IF value <= 0 THEN Outcome(d, "ValueOOR", None, <<>>)
    ELSE Outcome([d EXCEPT !.diam = value], NoExc, None, <<>>)

\* set_rate as it would be if it stored the rate before it looked at the units
DummySetRateStoresFirst(d, rate, units) ==
    IF rate <= 0 THEN Outcome(d, "ValueOOR", None, <<>>)
    ELSE IF units < 0 \/ units > Len(UNITS) - 1
         THEN Outcome([d EXCEPT !.rate = rate], "ValueOOR", None, <<>>)
    ELSE Outcome([d EXCEPT !.rate = rate, !.units = units], NoExc, None, <<>>)

\* DummyPump.set_rate
DummySetRate(d, rate, units) ==
    IF rate <= 0 THEN Outcome(d, "ValueOOR", None, <<>>)
    ELSE IF units < 0 \/ units > Len(UNITS) - 1 THEN Outcome(d, "ValueOOR", None, <<>>)
    ELSE Outcome([d EXCEPT !.rate = rate, !.units = units], NoExc, None, <<>>)

\* DummyPump.get_rate
DummyGetRate(d) == Outcome(d, NoExc, d.rate, <<>>)

\* DummyPump.get_units
DummyGetUnits(d) == Outcome(d, NoExc, d.units, <<>>)

\* most singleShot timers of a DummyPump pending at once in the model
MaxTimers == 2

\* DummyPump.start
DummyStart(d) ==
    IF d.status = "S"
    THEN Outcome([d EXCEPT !.status = IF d.dir = "INF" THEN "I"
                                      ELSE IF d.dir = "WDR" THEN "W" ELSE "S",
                           !.timers = IF d.target > 0 THEN @ + 1 ELSE @],
                 NoExc, None, <<>>)
    ELSE Outcome(d, NoExc, None, <<>>)

\* DummyPump.stop
DummyStop(d) == Outcome([d EXCEPT !.status = "S"], NoExc, None, <<>>)

\* DummyPump.reverse
DummyReverse(d) ==
    Outcome([d EXCEPT !.dir = IF @ = "INF" THEN "WDR"
                              ELSE IF @ = "WDR" THEN "INF" ELSE @],
            NoExc, None, <<>>)

\* DummyPump.is_running
DummyIsRunning(d) == Outcome(d, NoExc, PyBool(~(d.status = "S")), <<>>)

\* DummyPump.get_direction: returns currDir
DummyGetDirection(d) == Outcome(d, NoExc, StateOf(d.dir), <<>>)

\* DummyPump.set_direction: stores any STATE, STOPPED included
DummySetDirection(d, value) ==
    Outcome([d EXCEPT !.dir = IF value = INFUSING THEN "INF"
                              ELSE IF value = WITHDRAWING THEN "WDR" ELSE "STP"],
            NoExc, None, <<>>)

\* DummyPump.set_target_volume_uL
DummySetTargetVolume(d, value) == Outcome([d EXCEPT !.target = value], NoExc, None, <<>>)

\* DummyPump.clear_target_volume
DummyClearTargetVolume(d) == Outcome([d EXCEPT !.target = 0], NoExc, None, <<>>)

-----------------------------------------------------------------------------
(* Model11plusPump.  The answer of the device to one command is the text   *)
(* it prints followed by its prompt: "\r\n:" stopped, "\r\n>" running      *)
(* forward, "\r\n<" running in reverse.  The port hands the adapter that   *)
(* text as characters.                                                     *)

PROMPT_STP == <<"\r", "\n", ":">>

PROMPT_FWD == <<"\r", "\n", ">">>

PROMPT_REV == <<"\r", "\n", "<">>

ANS_OOR == <<"\r", "\n", "O", "O", "R">>

ANS_UNKNOWN == <<"\r", "\n", "?">>

StartsWith(s, t) == Len(s) >= Len(t) /\ SubSeq(s, 1, Len(t)) = t

RECURSIVE RemoveAll(_, _)
\* s.replace(t, "")
RemoveAll(s, t) ==
    IF Len(s) < Len(t) THEN s
    ELSE IF SubSeq(s, 1, Len(t)) = t THEN RemoveAll(SubSeq(s, Len(t) + 1, Len(s)), t)
    ELSE <<s[1]>> \o RemoveAll(Tail(s), t)

IsSpace(c) == c \in {" ", "\r", "\n", "\t"}

RECURSIVE Strip(_)
\* s.strip()
Strip(s) ==
    IF s = <<>> THEN s
    ELSE IF IsSpace(s[1]) THEN Strip(Tail(s))
    ELSE IF IsSpace(s[Len(s)]) THEN Strip(SubSeq(s, 1, Len(s) - 1))
    ELSE s

\* Model11plusPump.strip_prompt
M11StripPrompt(prompt) ==
    Strip(RemoveAll(RemoveAll(RemoveAll(prompt, PROMPT_STP), PROMPT_FWD), PROMPT_REV))

\* the prompt the device ends its answers with
M11Prompt(d) ==
    IF d.status = "I" THEN PROMPT_FWD
    ELSE IF d.status = "W" THEN PROMPT_REV
    ELSE PROMPT_STP

\* the text of a unit as the device prints it
M11UnitsText(u) ==
    << <<"M", "L", "/", "H", "R">>, <<"M", "L", "/", "M", "I", "N">>,
       <<"U", "L", "/", "H", "R">>, <<"U", "L", "/", "M", "I", "N">> >>[u + 1]

\* the command tokens of __CMD_SET_RATE, in the order of UNITS
M11RateTokens == <<"MLH", "MLM", "ULH", "ULM">>

\* One command executed by the device: its new state and its answer.  A
\* device that is switched off or unplugged (status "off") executes nothing
\* and answers nothing: inWaiting() is 0 and read(0) gives the empty text.
M11Exec(d, cmd, obeys) ==
    IF d.status = "off" THEN [dev |-> d, ans |-> <<>>]
    ELSE
    CASE cmd.tok \in {"MLH", "MLM", "ULH", "ULM"} ->
            [dev |-> [d EXCEPT
                        !.rate = ParseFloat(cmd.arg),
                        !.units = (CHOOSE i \in 1..4 : M11RateTokens[i] = cmd.tok) - 1],
             ans |-> M11Prompt(d)]
      [] cmd.tok = "RAT" -> [dev |-> d, ans |-> Fixed4(d.rate) \o M11Prompt(d)]
      [] cmd.tok = "RNG" -> [dev |-> d, ans |-> M11UnitsText(d.units) \o M11Prompt(d)]
      [] cmd.tok = "DIA" -> [dev |-> d, ans |-> Fixed4(d.diam) \o M11Prompt(d)]
      [] cmd.tok \in {"TAR", "VOL"} ->
            [dev |-> d, ans |-> Fixed4(d.target) \o M11Prompt(d)]
      [] cmd.tok = "VER" -> [dev |-> d, ans |-> <<"1", "1">> \o M11Prompt(d)]
      [] cmd.tok = "RUN" ->
            LET n == IF obeys
                     THEN [d EXCEPT !.status = IF d.dir = "INF" THEN "I" ELSE "W"]
                     ELSE d
            IN  [dev |-> n, ans |-> M11Prompt(n)]
      [] cmd.tok = "STP" ->
            LET n == IF obeys THEN [d EXCEPT !.status = "S"] ELSE d
            IN  [dev |-> n, ans |-> M11Prompt(n)]
      [] cmd.tok = "REV" ->
            LET n == [d EXCEPT !.dir = IF d.dir = "INF" THEN "WDR" ELSE "INF",
                               !.status = IF d.status = "I" THEN "W"
                                          ELSE IF d.status = "W" THEN "I" ELSE "S"]
            IN  [dev |-> n, ans |-> M11Prompt(n)]
      [] cmd.tok = "CLT" -> [dev |-> [d EXCEPT !.target = 0], ans |-> M11Prompt(d)]
      [] cmd.tok = "MLT" ->
            [dev |-> [d EXCEPT !.target = ParseFloat(cmd.arg)], ans |-> M11Prompt(d)]
      [] OTHER -> [dev |-> d, ans |-> M11Prompt(d)]

\* Model11plusPump.send_command
M11Send(d, cmd, obeys) ==
    LET Got(r) ==
            [dev |-> r.dev,
             ans |-> r.ans,
             exc |-> IF StartsWith(r.ans, ANS_OOR) THEN "ValueOOR"
                     ELSE IF StartsWith(r.ans, ANS_UNKNOWN) THEN "UnknownCommand"
                     ELSE NoExc]
    IN  Got(M11Exec(d, cmd, obeys))

\* Model11plusPump.set_rate
M11SetRate(d, value, units) ==
    IF value <= 0 THEN Outcome(d, "ValueOOR", None, <<>>)
    ELSE IF units < 0 \/ units > Len(UNITS) - 1 THEN Outcome(d, "ValueOOR", None, <<>>)
    ELSE LET c == Cmd(M11RateTokens[units + 1], Fixed4(value))
             Got(r) ==
                 Outcome(r.dev, r.exc, None, <<c>>)
         IN  Got(M11Send(d, c, TRUE))

\* Model11plusPump.get_rate
M11GetRate(d) ==
    LET c == Cmd("RAT", <<>>)
        Got(r) ==
            IF r.exc # NoExc THEN Outcome(r.dev, r.exc, None, <<c>>)
            ELSE Outcome(r.dev, NoExc, ParseFloat(M11StripPrompt(r.ans)), <<c>>)
    IN  Got(M11Send(d, c, TRUE))

\* Model11plusPump.get_units
M11GetUnits(d) ==
    LET c == Cmd("RNG", <<>>)
        Found(r, u) ==
            IF \E i \in 0..3 : M11UnitsText(i) = u
            THEN Outcome(r.dev, NoExc, CHOOSE i \in 0..3 : M11UnitsText(i) = u, <<c>>)
            ELSE Outcome(r.dev, "InvalidAnswer", None, <<c>>)
        Got(r) ==
            IF r.exc # NoExc THEN Outcome(r.dev, r.exc, None, <<c>>)
            ELSE Found(r, M11StripPrompt(r.ans))
    IN  Got(M11Send(d, c, TRUE))

\* Model11plusPump.get_direction: the third answer to an empty command
M11GetDirection(d) ==
    LET c  == Cmd("", <<>>)
        r1 == M11Send(d, c, TRUE)
        r2 == M11Send(r1.dev, c, TRUE)
        r3 == M11Send(r2.dev, c, TRUE)
        Answered(a1, a2, a3) ==
            IF a1.exc # NoExc THEN Outcome(a1.dev, a1.exc, None, <<c>>)
            ELSE IF a2.exc # NoExc THEN Outcome(a2.dev, a2.exc, None, <<c, c>>)
            ELSE IF a3.exc # NoExc THEN Outcome(a3.dev, a3.exc, None, <<c, c, c>>)
            ELSE Outcome(a3.dev, NoExc,
                         IF a3.ans = PROMPT_FWD THEN INFUSING
                         ELSE IF a3.ans = PROMPT_REV THEN WITHDRAWING
                         ELSE IF a3.ans = PROMPT_STP THEN STOPPED
                         ELSE None,
                         <<c, c, c>>)
    IN  Answered(r1, r2, r3)

\* Model11plusPump.run / start: compares the STATE it gets with "FWD", "REV"
M11Start(d, obeys) ==
    LET c == Cmd("RUN", <<>>)
        Verified(g) ==
            IF g.exc # NoExc THEN Outcome(g.dev, g.exc, None, <<c>> \o g.sent)
            ELSE IF g.val = "FWD" \/ g.val = "REV"
                 THEN Outcome(g.dev, NoExc, None, <<c>> \o g.sent)
            ELSE Outcome(g.dev, "NotRunning", None, <<c>> \o g.sent)
        Got(r) ==
            IF r.exc # NoExc THEN Outcome(r.dev, r.exc, None, <<c>>)
            ELSE Verified(M11GetDirection(r.dev))
    IN  Got(M11Send(d, c, obeys))

\* Model11plusPump.stop: compares the STATE it gets with "STOPPED"
M11Stop(d, obeys) ==
    LET c == Cmd("STP", <<>>)
        Verified(g) ==
            IF g.exc # NoExc THEN Outcome(g.dev, g.exc, None, <<c>> \o g.sent)
            ELSE IF g.val = "STOPPED" THEN Outcome(g.dev, NoExc, None, <<c>> \o g.sent)
            ELSE Outcome(g.dev, "NotStopped", None, <<c>> \o g.sent)
        Got(r) ==
            IF r.exc # NoExc THEN Outcome(r.dev, r.exc, None, <<c>>)
            ELSE Verified(M11GetDirection(r.dev))
    IN  Got(M11Send(d, c, obeys))

\* Model11plusPump.get_status: the one-line description it formats; on a
\* device that answers nothing get_diameter_mm calls float("")
M11GetStatus(d) ==
    LET q == <<Cmd("VER", <<>>), Cmd("DIA", <<>>), Cmd("RAT", <<>>), Cmd("RNG", <<>>),
               Cmd("TAR", <<>>), Cmd("RNG", <<>>), Cmd("VOL", <<>>), Cmd("RNG", <<>>)>>
        Described(u, g) ==
            IF d.status = "off" THEN Outcome(d, "ValueError", None, SubSeq(q, 1, 2))
            ELSE IF u.exc # NoExc THEN Outcome(d, u.exc, None, SubSeq(q, 1, 4))
            ELSE Outcome(d, g.exc, IF g.exc = NoExc THEN "Syringe Pump v.11" ELSE None,
                         q \o g.sent)
    IN  Described(M11GetUnits(d), M11GetDirection(d))

\* Model11plusPump.is_running: not self.get_status() == self.STATE.STOPPED
M11IsRunning(d) ==
    LET Negated(st) ==
            IF st.exc # NoExc THEN st
            ELSE Outcome(st.dev, NoExc, PyBool(~(st.val = STOPPED)), st.sent)
    IN  Negated(M11GetStatus(d))

\* Model11plusPump.set_direction: pass
M11SetDirection(d, value) == Outcome(d, NoExc, None, <<>>)

\* Model11plusPump.reverse
M11Reverse(d) ==
    LET c == Cmd("REV", <<>>)
        Got(r) ==
            Outcome(r.dev, r.exc, None, <<c>>)
    IN  Got(M11Send(d, c, TRUE))

\* Model11plusPump.set_target_volume_uL: "MLT %5.4f\r"
M11SetTargetVolume(d, value) ==
    LET c == Cmd("MLT", Fixed4(value))
        Got(r) ==
            Outcome(r.dev, r.exc, None, <<c>>)
    IN  Got(M11Send(d, c, TRUE))

\* Model11plusPump.clear_target_volume
M11ClearTargetVolume(d) ==
    LET c == Cmd("CLT", <<>>)
        Got(r) ==
            Outcome(r.dev, r.exc, None, <<c>>)
    IN  Got(M11Send(d, c, TRUE))

-----------------------------------------------------------------------------
(* Harvard11ElitePump.  _send_command returns the answer with its prompt   *)
(* and terminator stripped; the answers of the device are modelled as      *)
(* that stripped text, split into its fields.  A float travels as Python's *)
(* str(float), which float() reads back exactly.                           *)

\* 'irate {rate} {units}' executed by the device, and the other commands
HarvardExec(d, cmd, obeys) ==
    CASE cmd.tok = "irate" /\ cmd.arg # <<>> ->
            [d EXCEPT !.rate = cmd.arg[1], !.units = cmd.arg[2]]
      [] cmd.tok = "tvolume" /\ cmd.arg # <<>> -> [d EXCEPT !.target = cmd.arg[1]]
      [] cmd.tok = "ctvolume" -> [d EXCEPT !.target = 0]
      [] cmd.tok = "diameter" /\ cmd.arg # <<>> -> [d EXCEPT !.diam = cmd.arg[1]]
      [] cmd.tok = "run" ->
            IF obeys THEN [d EXCEPT !.status = IF d.dir = "INF" THEN "I" ELSE "W"]
            ELSE d
      [] cmd.tok = "stop" -> IF obeys THEN [d EXCEPT !.status = "S"] ELSE d
      [] OTHER -> d

\* Harvard11ElitePump.set_rate: no check of value; UNITS[units] raises
\* IndexError outside -4..3
HarvardSetRate(d, value, units) ==
    IF units > Len(UNITS) - 1 \/ units < 0 - Len(UNITS)
    THEN Outcome(d, "IndexError", None, <<>>)
    ELSE LET c == Cmd("irate", <<value, units % Len(UNITS)>>)
         IN  Outcome(HarvardExec(d, c, TRUE), NoExc, None, <<c>>)

\* Harvard11ElitePump.get_rate: float of the first field of the answer
HarvardGetRate(d) == Outcome(d, NoExc, d.rate, <<Cmd("irate", <<>>)>>)

\* Harvard11ElitePump.get_units: index of the second field in UNITS
HarvardGetUnits(d) == Outcome(d, NoExc, d.units, <<Cmd("irate", <<>>)>>)

\* the flag field of the device's answer to 'status': direction letter
\* (lower case when stopped), stall flag at [2], target-reached flag at [5]
HarvardFlags(d) ==
    <<IF d.status = "I" THEN "I" ELSE IF d.status = "W" THEN "W"
      ELSE IF d.dir = "INF" THEN "i" ELSE "w",
      ".", ".", ".", ".",
      IF d.reached THEN "T" ELSE ".">>

IsLower(c) == c \in {"i", "w"}

\* Harvard11ElitePump._get_status: what it stores in self._state,
\* self._stalled and self._target_reached from the flag field of one answer
HarvardStatusOf(flags) ==
    [state          |-> IF IsLower(flags[1]) THEN STOPPED
                        ELSE IF flags[1] = "I" THEN INFUSING
                        ELSE WITHDRAWING,
     stalled        |-> flags[3] \in {"S", "s"},
     target_reached |-> flags[6] \in {"T", "t"}]

\* Harvard11ElitePump._get_status: the STATE it stores in self._state
HarvardGetStatus(d) == HarvardStatusOf(HarvardFlags(d)).state

\* is_running as it would be if it answered from the fields a former
\* status query has left
HarvardPollCached(e, flags) ==
    [elite |-> e, val |-> PyBool(~(e.state = STOPPED)), sent |-> <<>>]

\* Harvard11ElitePump.is_running with the fields of the object: _get_status
\* sends 'status' and stores what the answer says, then the state is tested
HarvardPoll(e, flags) ==
    [elite |-> HarvardStatusOf(flags),
     val   |-> PyBool(~(HarvardStatusOf(flags).state = STOPPED)),
     sent  |-> <<Cmd("status", <<>>)>>]

\* Harvard11ElitePump.start: sends 'run', checks nothing
HarvardStart(d, obeys) ==
    LET c == Cmd("run", <<>>)
    IN  Outcome(HarvardExec(d, c, obeys), NoExc, None, <<c>>)

\* Harvard11ElitePump.stop: sends 'stop', checks nothing
HarvardStop(d, obeys) ==
    LET c == Cmd("stop", <<>>)
    IN  Outcome(HarvardExec(d, c, obeys), NoExc, None, <<c>>)

\* Harvard11ElitePump.is_running
HarvardIsRunning(d) ==
    Outcome(d, NoExc, PyBool(~(HarvardGetStatus(d) = STOPPED)), <<Cmd("status", <<>>)>>)

\* Harvard11ElitePump.get_direction: always INFUSING
HarvardGetDirection(d) == Outcome(d, NoExc, INFUSING, <<>>)

\* Harvard11ElitePump.set_direction: pass
HarvardSetDirection(d, value) == Outcome(d, NoExc, None, <<>>)

\* Harvard11ElitePump.reverse: pass
HarvardReverse(d) == Outcome(d, NoExc, None, <<>>)

\* Harvard11ElitePump.set_target_volume_uL
HarvardSetTargetVolume(d, value) ==
    LET c == Cmd("tvolume", <<value>>)
    IN  Outcome(HarvardExec(d, c, TRUE), NoExc, None, <<c>>)

\* Harvard11ElitePump.clear_target_volume
HarvardClearTargetVolume(d) ==
    LET c == Cmd("ctvolume", <<>>)
    IN  Outcome(HarvardExec(d, c, TRUE), NoExc, None, <<c>>)

-----------------------------------------------------------------------------
(* The uniform pump interface: dispatch on the adapter class              *)

Vendors == {"dummy", "model11plus", "aladdin", "Harvard11Elite"}

PumpSetRate(v, d, value, units) ==
    CASE v = "dummy" -> DummySetRate(d, value, units)
      [] v = "model11plus" -> M11SetRate(d, value, units)
      [] v = "aladdin" -> AlaSetRate(d, value, units)
      [] v = "Harvard11Elite" -> HarvardSetRate(d, value, units)

PumpGetRate(v, d) ==
    CASE v = "dummy" -> DummyGetRate(d)
      [] v = "model11plus" -> M11GetRate(d)
      [] v = "aladdin" -> AlaGetRate(d)
      [] v = "Harvard11Elite" -> HarvardGetRate(d)

PumpGetUnits(v, d) ==
    CASE v = "dummy" -> DummyGetUnits(d)
      [] v = "model11plus" -> M11GetUnits(d)
      [] v = "aladdin" -> AlaGetUnits(d)
      [] v = "Harvard11Elite" -> HarvardGetUnits(d)

PumpStart(v, d, obeys) ==
    CASE v = "dummy" -> DummyStart(d)
      [] v = "model11plus" -> M11Start(d, obeys)
      [] v = "aladdin" -> AlaStart(d, obeys)
      [] v = "Harvard11Elite" -> HarvardStart(d, obeys)

PumpStop(v, d, obeys) ==
    CASE v = "dummy" -> DummyStop(d)
      [] v = "model11plus" -> M11Stop(d, obeys)
      [] v = "aladdin" -> AlaStop(d, obeys)
      [] v = "Harvard11Elite" -> HarvardStop(d, obeys)

PumpIsRunning(v, d) ==
    CASE v = "dummy" -> DummyIsRunning(d)
      [] v = "model11plus" -> M11IsRunning(d)
      [] v = "aladdin" -> AlaIsRunning(d)
      [] v = "Harvard11Elite" -> HarvardIsRunning(d)

PumpGetDirection(v, d) ==
    CASE v = "dummy" -> DummyGetDirection(d)
      [] v = "model11plus" -> M11GetDirection(d)
      [] v = "aladdin" -> AlaGetDirection(d)
      [] v = "Harvard11Elite" -> HarvardGetDirection(d)

PumpSetDirection(v, d, value) ==
    CASE v = "dummy" -> DummySetDirection(d, value)
      [] v = "model11plus" -> M11SetDirection(d, value)
      [] v = "aladdin" -> AlaSetDirection(d, value)
      [] v = "Harvard11Elite" -> HarvardSetDirection(d, value)

PumpReverse(v, d) ==
    CASE v = "dummy" -> DummyReverse(d)
      [] v = "model11plus" -> M11Reverse(d)
      [] v = "aladdin" -> AlaReverse(d)
      [] v = "Harvard11Elite" -> HarvardReverse(d)

PumpSetTargetVolume(v, d, value) ==
    CASE v = "dummy" -> DummySetTargetVolume(d, value)
      [] v = "model11plus" -> M11SetTargetVolume(d, value)
      [] v = "aladdin" -> AlaSetTargetVolume(d, value)
      [] v = "Harvard11Elite" -> HarvardSetTargetVolume(d, value)

PumpClearTargetVolume(v, d) ==
    CASE v = "dummy" -> DummyClearTargetVolume(d)
      [] v = "model11plus" -> M11ClearTargetVolume(d)
      [] v = "aladdin" -> AlaClearTargetVolume(d)
      [] v = "Harvard11Elite" -> HarvardClearTargetVolume(d)

-----------------------------------------------------------------------------
(* Pump-API calls as steps                                                 *)

\* syringe diameters in thousandths of a mm: 10, 14, 14.01 and 20 mm
Diameters == {10000, 14000, 14010, 20000}

\* target volumes asked for, in thousandths of a uL: -1, 0, 500, 5000,
\* 12345 and 100000 uL
VolumeInputs == {0 - 1000, 0, 500000, 5000000, 12345000, 100000000}

\* largest target, in thousandths of a mL, that the model reads back from
\* a device in mL mode (its value in uL must fit the model's integers)
MaxReportedML == 2000000

NoCall == [op |-> "init", a |-> 0, b |-> 0, exc |-> NoExc, val |-> None]

Brief(c) == [op |-> c.op, a |-> c.a, b |-> c.b, exc |-> c.exc, val |-> c.val]

\* the call op(a, b) ends with outcome o
CallDone(op, a, b, o) ==
    /\ prev' = Brief(last)
    /\ last' = [op |-> op, a |-> a, b |-> b,
                exc |-> o.exc, val |-> o.val, sent |-> o.sent]
    /\ dev' = o.dev

\* something happens at the device itself, between two calls
DeviceEvent(name, d) ==
    /\ prev' = Brief(last)
    /\ last' = [op |-> name, a |-> 0, b |-> 0,
                exc |-> NoExc, val |-> None, sent |-> <<>>]
    /\ dev' = d

\* the state of a device as the operator may have left it
DeviceStates ==
    [status : {"S"}, dir : {"INF"}, rate : {20000}, units : {0},
     target : {0}, diam : Diameters, timers : {0}, reached : {FALSE}]

\* no answer yet: the exchange has not got to parse()
NoAnswer == [exc |-> "pending", address |-> <<>>, status |-> <<>>, message |-> <<>>]

ParseIdle == line = <<>> /\ timedOut = FALSE /\ answer = NoAnswer

\* a thread that runs nothing
NoThread == [pc |-> "idle", rate |-> 0, units |-> 0, dir |-> STOPPED]

\* no bolus asked for yet
NoBolus ==
    [before |-> "S", R |-> 0, U |-> 0, launched |-> FALSE, selfStopped |-> FALSE,
     operated |-> FALSE, aborted |-> FALSE]

\* DEFAULT_BOLUS_RATE, in thousandths
DEFAULT_BOLUS_RATE == 1000

DEFAULT_BOLUS_RATE_UNITS == 1

\* no dose asked for yet: no watcher thread ever started, auto-inject
\* unchecked, no alarm delay chosen, the PumpTimer's clock not started
NoInject ==
    [threads |-> <<>>, auto |-> FALSE, thresh |-> FALSE, clock |-> FALSE,
     bolus_rate |-> DEFAULT_BOLUS_RATE]

\* DrugPumpPanel after __init__: dose buttons enabled, Abort hidden,
\* perfusion button up, no watcher thread
PanelIdle ==
    /\ gui = NoThread
    /\ watcher = NoThread
    /\ io = [t \in {"gui", "watcher"} |-> FALSE]
    /\ ui = [injectEnabled |-> TRUE, perfChecked |-> FALSE, toggled |-> FALSE]
    /\ hist = NoBolus
    /\ inject = NoInject

\* no bring-up under way
NoBoot ==
    [pc |-> "idle", tries |-> 0, step |-> 1, success |-> FALSE, pump |-> None,
     pumps |-> <<>>, port |-> "open", yes |-> 0, exc |-> NoExc, how |-> "none",
     sinceAsked |-> 0]

\* Harvard11ElitePump.__init__: the fields before the first status query
NoStatus == [state |-> STOPPED, stalled |-> FALSE, target_reached |-> FALSE]

\* StartDialog not run: the adapter has the default address, nothing written
StartIdle == address = 0 /\ boot = NoBoot /\ wire = <<>> /\ elite = NoStatus

-----------------------------------------------------------------------------
(* SpecVolume: the target volume of an AladdinPump                         *)

InitVolume ==
    /\ vendor = "aladdin"
    /\ dev \in DeviceStates
    /\ prev = NoCall
    /\ last = NoCall @@ [sent |-> <<>>]
    /\ ParseIdle
    /\ PanelIdle
    /\ StartIdle

SetTargetVolume ==
    /\ \E x \in VolumeInputs :
          CallDone("set_target_volume_uL", x, 0, AlaSetTargetVolume(dev, x))
    /\ UNCHANGED <<vendor, parseVars, panelVars, startVars>>

GetTargetVolume ==
    /\ dev.diam <= ThresholdDiameter \/ dev.target <= MaxReportedML
    /\ CallDone("get_target_volume_uL", 0, 0, AlaGetTargetVolume(dev))
    /\ UNCHANGED <<vendor, parseVars, panelVars, startVars>>

ClearTargetVolume ==
    /\ CallDone("clear_target_volume", 0, 0, AlaClearTargetVolume(dev))
    /\ UNCHANGED <<vendor, parseVars, panelVars, startVars>>

\* the operator fits another syringe and enters its diameter on the keypad
KeypadDiameter ==
    /\ \E dm \in Diameters \ {dev.diam} :
          DeviceEvent("keypad_diameter", [dev EXCEPT !.diam = dm])
    /\ UNCHANGED <<vendor, parseVars, panelVars, startVars>>

NextVolume ==
    \/ SetTargetVolume
    \/ GetTargetVolume
    \/ ClearTargetVolume
    \/ KeypadDiameter

SpecVolume == InitVolume /\ [][NextVolume]_vars

\* C1: set_target_volume_uL(x), x >= 0, queries the diameter in the same
\* call before it writes VOL, and the VOL it writes carries x when that
\* diameter is <= 14.0 mm and x/1000 when it is > 14.0 mm.
C1_WritesXInDiameterUnit ==
    (last.op = "set_target_volume_uL" /\ last.a >= 0) =>
        /\ last.exc = NoExc
        /\ Len(last.sent) = 2
        /\ last.sent[1] = Cmd("DIA", <<>>)
        /\ last.sent[2].tok = "VOL"
        /\ IF dev.diam <= ThresholdDiameter
           THEN ParseFloat(last.sent[2].arg) = last.a
           ELSE ParseFloat(last.sent[2].arg) * 1000 = last.a

\* What does hold of set_target_volume_uL: the unit of the VOL it writes
\* follows the diameter the device has during that very call, and the text
\* written is format_float of the value in that unit.
SetTargetUsesCurrentDiameter ==
    (last.op = "set_target_volume_uL" /\ last.a >= 0) =>
        /\ last.sent[1] = Cmd("DIA", <<>>)
        /\ last.sent[2] = Cmd("VOL", format_float(
                IF dev.diam <= ThresholdDiameter THEN last.a
                ELSE Scale1em3(last.a)))

\* C2: set_target_volume_uL(x), x >= 0, followed by get_target_volume_uL()
\* returns x, whatever the diameter.
C2_TargetVolumeRoundTrip ==
    (/\ last.op = "get_target_volume_uL"
     /\ prev.op = "set_target_volume_uL" /\ prev.a >= 0) =>
        (last.exc = NoExc /\ last.val = prev.a)

-----------------------------------------------------------------------------
(* SpecRate: set_rate, get_rate and get_units of every adapter             *)

\* rates asked for, in thousandths: 0, 0.001, 1.234, 2.5 and 1234.5
RateInputs == {0, 1, 1234, 2500, 1234500}

\* unit indices asked for: the four of UNITS and one past them
UnitInputs == 0..4

InitRate ==
    /\ vendor \in Vendors
    /\ dev \in {d \in DeviceStates : d.diam = 10000}
    /\ prev = NoCall
    /\ last = NoCall @@ [sent |-> <<>>]
    /\ ParseIdle
    /\ PanelIdle
    /\ StartIdle

SetRate ==
    /\ \E v \in RateInputs, u \in UnitInputs :
          CallDone("set_rate", v, u, PumpSetRate(vendor, dev, v, u))
    /\ UNCHANGED <<vendor, parseVars, panelVars, startVars>>

GetRate ==
    /\ CallDone("get_rate", 0, 0, PumpGetRate(vendor, dev))
    /\ UNCHANGED <<vendor, parseVars, panelVars, startVars>>

GetUnits ==
    /\ CallDone("get_units", 0, 0, PumpGetUnits(vendor, dev))
    /\ UNCHANGED <<vendor, parseVars, panelVars, startVars>>

NextRate ==
    \/ SetRate
    \/ GetRate
    \/ GetUnits

SpecRate == InitRate /\ [][NextRate]_vars

\* C3: on every adapter, set_rate(v, u) with v > 0 and u in 0..3 followed
\* by get_rate() / get_units() returns v / u.
C3_RateRoundTrip ==
    (/\ last.op \in {"get_rate", "get_units"}
     /\ prev.op = "set_rate" /\ prev.a > 0 /\ prev.b \in 0..3) =>
        /\ last.exc = NoExc
        /\ last.op = "get_rate" => last.val = prev.a
        /\ last.op = "get_units" => last.val = prev.b

\* the call that ends in this step is set_rate(v, u) with v <= 0 or u
\* outside 0..3
BadSetRate == last'.op = "set_rate" /\ (last'.a <= 0 \/ last'.b \notin 0..3)

\* C14: on every adapter, set_rate(v, u) with v <= 0 or u outside 0..3
\* raises SyringePumpValueOORException, writes nothing to the transport
\* and leaves the pump's rate and unit as they were.
C14_BadRateRefusedLocally ==
    [][BadSetRate =>
          /\ last'.exc = "ValueOOR"
          /\ last'.sent = <<>>
          /\ dev'.rate = dev.rate /\ dev'.units = dev.units]_vars

-----------------------------------------------------------------------------
(* SpecRun: starting, stopping and querying every adapter, with a device   *)
(* that may not act on a run or stop command and that stops by itself      *)
(* when the target volume is reached                                       *)

\* target volumes used here, in thousandths of a uL: none and 500 uL
RunTargets == {0, 500000}

InitRun ==
    /\ vendor \in Vendors
    /\ dev \in {d \in DeviceStates : d.diam = 10000}
    /\ prev = NoCall
    /\ last = NoCall @@ [sent |-> <<>>]
    /\ ParseIdle
    /\ PanelIdle
    /\ StartIdle

Start ==
    /\ \E obeys \in BOOLEAN : CallDone("start", 0, 0, PumpStart(vendor, dev, obeys))
    /\ dev'.timers <= MaxTimers
    /\ UNCHANGED <<vendor, parseVars, panelVars, startVars>>

Stop ==
    /\ \E obeys \in BOOLEAN : CallDone("stop", 0, 0, PumpStop(vendor, dev, obeys))
    /\ UNCHANGED <<vendor, parseVars, panelVars, startVars>>

IsRunning ==
    /\ CallDone("is_running", 0, 0, PumpIsRunning(vendor, dev))
    /\ UNCHANGED <<vendor, parseVars, panelVars, startVars>>

GetDirection ==
    /\ CallDone("get_direction", 0, 0, PumpGetDirection(vendor, dev))
    /\ UNCHANGED <<vendor, parseVars, panelVars, startVars>>

SetDirection ==
    /\ \E value \in {STOPPED, INFUSING, WITHDRAWING} :
          CallDone("set_direction", value, 0, PumpSetDirection(vendor, dev, value))
    /\ UNCHANGED <<vendor, parseVars, panelVars, startVars>>

Reverse ==
    /\ CallDone("reverse", 0, 0, PumpReverse(vendor, dev))
    /\ UNCHANGED <<vendor, parseVars, panelVars, startVars>>

SetRunTarget ==
    /\ \E x \in RunTargets :
          CallDone("set_target_volume_uL", x, 0, PumpSetTargetVolume(vendor, dev, x))
    /\ UNCHANGED <<vendor, parseVars, panelVars, startVars>>

\* the device has delivered its target volume and stops by itself
TargetReached ==
    /\ vendor # "dummy"
    /\ Running(dev) /\ dev.target > 0
    /\ DeviceEvent("target_reached", [dev EXCEPT !.status = "S", !.reached = TRUE])
    /\ UNCHANGED <<vendor, parseVars, panelVars, startVars>>

\* a singleShot timer armed by DummyPump.start fires: lambda: self.stop()
DummyTimerFires ==
    /\ vendor = "dummy"
    /\ dev.timers > 0
    /\ DeviceEvent("timer", [DummyStop(dev).dev EXCEPT !.timers = @ - 1])
    /\ UNCHANGED <<vendor, parseVars, panelVars, startVars>>

NextRun ==
    \/ Start
    \/ Stop
    \/ IsRunning
    \/ GetDirection
    \/ SetDirection
    \/ Reverse
    \/ SetRunTarget
    \/ TargetReached
    \/ DummyTimerFires

SpecRun == InitRun /\ [][NextRun]_vars

\* C7: start() raises PumpNotRunning whenever the device is not running
\* after the run command, stop() raises PumpNotStopped whenever the device
\* is still running after the stop command.
C7_StartStopVerified ==
    /\ (last.op = "start" /\ ~Running(dev)) => last.exc = "NotRunning"
    /\ (last.op = "stop" /\ Running(dev)) => last.exc = "NotStopped"

\* C8: is_running() returns True exactly when the device is infusing or
\* withdrawing and False exactly when it is stopped.
C8_IsRunningTellsTheState ==
    last.op = "is_running" => (last.exc = NoExc /\ last.val = PyBool(Running(dev)))

\* C9: if is_running() returns False, then get_direction(), called next
\* with no change of the device in between, returns STATE.STOPPED.
C9_DirectionAgreesWithIsRunning ==
    (/\ prev.op = "is_running" /\ prev.exc = NoExc /\ prev.val = PyFalse
     /\ last.op = "get_direction") =>
        (last.exc = NoExc /\ last.val = STOPPED)

\* the direction asked for by the set_direction call just made is the
\* device's direction, and the one it moves in if it is running
DirectionApplied ==
    /\ StateOf(dev.dir) = last.a
    /\ Running(dev) => StateOf(dev.status) = last.a

\* C18: on every adapter, a set_direction call either takes effect (the
\* direction is the device's from then on, at once if it is running) or
\* raises SyringePumpInvalidCommandException; a call that cannot be
\* applied, set_direction(STOPPED) included, is never silently ignored.
C18_SetDirectionAppliesOrRaises ==
    last.op = "set_direction" =>
        \/ last.exc = "InvalidCommand"
        \/ last.exc = NoExc /\ last.a \in {INFUSING, WITHDRAWING} /\ DirectionApplied

\* C19: the running state of a DummyPump is one of Stopped, Infusing,
\* Withdrawing; it changes only in start(), stop() or when the simulated
\* target-volume timer fires; start() on a stopped pump leaves it
\* infusing or withdrawing, start() on a running pump changes nothing,
\* and stop() leaves it stopped.
C19_DummyRunningState ==
    [][vendor = "dummy" =>
          /\ dev'.status \in {"S", "I", "W"}
          /\ dev'.status # dev.status => last'.op \in {"start", "stop", "timer"}
          /\ (last'.op = "start" /\ dev.status = "S") => dev'.status \in {"I", "W"}
          /\ (last'.op = "start" /\ dev.status # "S") => dev'.status = dev.status
          /\ last'.op = "stop" => dev'.status = "S"]_vars

\* what does hold for DummyPump: the same, but for start() after
\* set_direction(STATE.STOPPED)
DummyRunningStateButStoppedDirection ==
    [][vendor = "dummy" =>
          /\ dev'.status \in {"S", "I", "W"}
          /\ dev'.status # dev.status => last'.op \in {"start", "stop", "timer"}
          /\ (last'.op = "start" /\ dev.status = "S" /\ dev.dir # "STP") =>
                dev'.status \in {"I", "W"}
          /\ (last'.op = "start" /\ dev.status # "S") => dev'.status = dev.status
          /\ last'.op = "stop" => dev'.status = "S"]_vars

\* start() of Model11plusPump has written "RUN\r" first
M11StartWritesRun == last.sent # <<>> /\ last.sent[1] = Cmd("RUN", <<>>)

\* get_direction(), called right after start(), tells the prompt of the device
M11DirectionAfterStart ==
    (prev.op = "start" /\ last.op = "get_direction") =>
        /\ dev.status = "I" => (last.exc = NoExc /\ last.val = INFUSING)
        /\ dev.status = "W" => (last.exc = NoExc /\ last.val = WITHDRAWING)

\* C22: on Model11plusPump, start() writes "RUN\r" and, when the device
\* then shows the forward or the reverse prompt, returns without raising;
\* get_direction() then returns INFUSING for the forward prompt and
\* WITHDRAWING for the reverse prompt.
C22_M11StartThenDirection ==
    vendor = "model11plus" =>
        /\ last.op = "start" => M11StartWritesRun
        /\ (last.op = "start" /\ Running(dev)) => last.exc = NoExc
        /\ M11DirectionAfterStart

\* what does hold: the command written and the direction read back
M11StartThenDirectionButRaises ==
    vendor = "model11plus" =>
        /\ last.op = "start" => (M11StartWritesRun /\ last.exc = "NotRunning")
        /\ M11DirectionAfterStart

-----------------------------------------------------------------------------
(* SpecPrompt: the operations of Model11plusPump on a device that may be   *)
(* switched off between two calls, and then answers nothing                *)

InitPrompt ==
    /\ vendor = "model11plus"
    /\ dev \in DeviceStates
    /\ prev = NoCall
    /\ last = NoCall @@ [sent |-> <<>>]
    /\ ParseIdle
    /\ PanelIdle
    /\ StartIdle

\* the device is switched off or its cable is pulled
DeviceOff ==
    /\ dev.status # "off"
    /\ DeviceEvent("off", [dev EXCEPT !.status = "off"])
    /\ UNCHANGED <<vendor, parseVars, panelVars, startVars>>

\* the device is switched on again, stopped
DeviceOn ==
    /\ dev.status = "off"
    /\ DeviceEvent("on", [dev EXCEPT !.status = "S"])
    /\ UNCHANGED <<vendor, parseVars, panelVars, startVars>>

NextPrompt ==
    \/ DeviceOff
    \/ DeviceOn
    \/ Start
    \/ Stop
    \/ IsRunning
    \/ GetDirection
    \/ Reverse
    \/ SetRunTarget
    \/ TargetReached

SpecPrompt == InitPrompt /\ [][NextPrompt]_vars

\* C23: on Model11plusPump, an answer that ends with none of the three
\* prompts and is neither the out-of-range nor the unknown-command marker
\* raises InvalidAnswer; get_direction() returns STOPPED, INFUSING or
\* WITHDRAWING whenever it returns.
C23_M11DirectionDecoded ==
    last.op = "get_direction" =>
        /\ last.exc = NoExc => last.val \in {STOPPED, INFUSING, WITHDRAWING}
        /\ dev.status = "off" => last.exc = "InvalidAnswer"

\* what does hold: a prompt is decoded as the state it stands for, and an
\* answer that is no prompt makes get_direction() return None
M11DirectionOrNone ==
    last.op = "get_direction" =>
        /\ last.exc = NoExc
        /\ last.val = IF dev.status = "off" THEN None ELSE StateOf(dev.status)

-----------------------------------------------------------------------------
(* SpecPoll: Harvard11ElitePump polling a device that is started, stopped, *)
(* stalls and reaches its target volume; line is the flag field of the     *)
(* last answer to 'status'                                                 *)

\* the direction set at the device's keypad
KeypadDirections == {"INF", "WDR"}

InitPoll ==
    /\ vendor = "Harvard11Elite"
    /\ \E d \in DeviceStates, k \in KeypadDirections : dev = [d EXCEPT !.dir = k]
    /\ prev = NoCall
    /\ last = NoCall @@ [sent |-> <<>>]
    /\ ParseIdle
    /\ PanelIdle
    /\ StartIdle

\* the flag field the device sends now; whether the motor is stalled is the
\* device's business
FlagsNow(d, stalled) == [HarvardFlags(d) EXCEPT ![3] = IF stalled THEN "S" ELSE "."]

\* Harvard11ElitePump.is_running
PollIsRunning ==
    /\ \E stalled \in BOOLEAN :
          LET Polled(r) ==
                  /\ elite' = r.elite
                  /\ CallDone("is_running", 0, 0, Outcome(dev, NoExc, r.val, r.sent))
          IN  /\ line' = FlagsNow(dev, stalled)
              /\ Polled(HarvardPoll(elite, FlagsNow(dev, stalled)))
    /\ UNCHANGED <<vendor, timedOut, answer, panelVars, address, boot, wire>>

NextPoll ==
    \/ PollIsRunning
    \/ Start
    \/ Stop
    \/ SetRunTarget
    \/ TargetReached

SpecPoll == InitPoll /\ [][NextPoll]_vars

\* C24: every is_running() of Harvard11ElitePump sends a status query and
\* classifies the flag field of its answer: lower-case first character,
\* stopped; 'I', infusing; another character, withdrawing; the stall and
\* target-reached flags come from the same answer; it returns False
\* exactly when that first character is lower-case, whatever an earlier
\* query had found.
C24_PollClassifiesFreshStatus ==
    last.op = "is_running" =>
        /\ last.sent = <<Cmd("status", <<>>)>>
        /\ line[1] = HarvardFlags(dev)[1] /\ line[6] = HarvardFlags(dev)[6]
        /\ elite.state = (IF line[1] \in {"i", "w"} THEN STOPPED
                          ELSE IF line[1] = "I" THEN INFUSING ELSE WITHDRAWING)
        /\ elite.stalled = (line[3] = "S")
        /\ elite.target_reached = (line[6] = "T")
        /\ last.val = PyBool(line[1] \notin {"i", "w"})
        /\ last.val = PyBool(Running(dev))

\* a query has found a withdrawing pump stopped at its target and stalled
C24_Reached ==
    /\ last.op = "is_running" /\ last.val = PyFalse
    /\ elite = [state |-> STOPPED, stalled |-> TRUE, target_reached |-> TRUE]
    /\ dev.dir = "WDR"

-----------------------------------------------------------------------------
(* SpecDummy: every operation of a DummyPump built with its default        *)
(* arguments that assigns a field, with arguments on both sides of what    *)
(* it accepts                                                              *)

\* diameters asked for, in thousandths of a mm: -5, 0 and 4.61
DummyDiameterInputs == {0 - 5000, 0, 4610}

\* rates asked for, in thousandths: -1, 0 and 2.5
DummyRateInputs == {0 - 1000, 0, 2500}

\* unit indices asked for: one of UNITS, one below and one above them
DummyUnitInputs == {0 - 1, 3, 4}

InitDummy ==
    /\ vendor = "dummy"
    /\ dev \in {d \in DeviceStates : d.diam = 10000}
    /\ prev = NoCall
    /\ last = NoCall @@ [sent |-> <<>>]
    /\ ParseIdle
    /\ PanelIdle
    /\ StartIdle

DummySetsDiameter ==
    /\ \E x \in DummyDiameterInputs :
          CallDone("set_syringe_diameter_mm", x, 0, DummySetDiameter(dev, x))
    /\ UNCHANGED <<vendor, parseVars, panelVars, startVars>>

DummySetsRate ==
    /\ \E v \in DummyRateInputs, u \in DummyUnitInputs :
          CallDone("set_rate", v, u, DummySetRate(dev, v, u))
    /\ UNCHANGED <<vendor, parseVars, panelVars, startVars>>

DummyClearsTarget ==
    /\ CallDone("clear_target_volume", 0, 0, DummyClearTargetVolume(dev))
    /\ UNCHANGED <<vendor, parseVars, panelVars, startVars>>

NextDummy ==
    \/ DummySetsDiameter
    \/ DummySetsRate
    \/ DummyClearsTarget
    \/ Start
    \/ Stop
    \/ SetDirection
    \/ Reverse
    \/ SetRunTarget
    \/ DummyTimerFires

SpecDummy == InitDummy /\ [][NextDummy]_vars

DummyValuesValid(d) == d.diam > 0 /\ d.rate > 0 /\ d.units \in 0..3

\* the call just made is a set_syringe_diameter_mm or a set_rate with an
\* argument the pump does not accept
DummyBadArgument(c) ==
    \/ c.op = "set_syringe_diameter_mm" /\ c.a <= 0
    \/ c.op = "set_rate" /\ (c.a <= 0 \/ c.b \notin 0..3)

\* C25: a DummyPump built with its default arguments has a diameter > 0, a
\* rate > 0 and a unit index in 0..3 after any sequence of operations;
\* set_syringe_diameter_mm and set_rate raise ValueOOR for a non-positive
\* or out-of-range argument and leave diameter, rate and unit as they were.
C25_DummyValuesStayValid ==
    /\ DummyValuesValid(dev)
    /\ [][/\ DummyValuesValid(dev')
          /\ DummyBadArgument(last') =>
                /\ last'.exc = "ValueOOR"
                /\ dev'.diam = dev.diam /\ dev'.rate = dev.rate
                /\ dev'.units = dev.units]_vars

\* a rate accepted, then a set_rate with a good rate and a bad unit refused
C25_Reached ==
    /\ prev.op = "set_rate" /\ prev.exc = NoExc
    /\ last.op = "set_rate" /\ last.a > 0 /\ last.b = 4
    /\ last.exc = "ValueOOR"
    /\ dev.diam = 4610 /\ dev.units = 3

\* the last call was a start() that found the pump stopped, with no target
\* volume set: an infusion that nothing but stop() is to end
StartedWithoutTarget ==
    /\ prev.op = "stop" /\ last.op = "start"
    /\ dev.target = 0 /\ Running(dev)

\* C28: a DummyPump infusion started by start() with the target volume
\* cleared runs until stop() is called; no completion scheduled by an
\* earlier start() that had a target volume stops it.
C28_NoStaleCompletion ==
    [][StartedWithoutTarget => (Running(dev') \/ last'.op = "stop")]_vars

\* what does hold: it runs until stop() when no completion is pending
NoCompletionWhenNonePending ==
    [][(StartedWithoutTarget /\ dev.timers = 0) =>
          (Running(dev') \/ last'.op = "stop")]_vars

-----------------------------------------------------------------------------
(* SpecAlarm: the operations of AladdinPump on a device that may go into   *)
(* alarm between two calls and stays there until the alarm is cleared at   *)
(* the device                                                              *)

InitAlarm ==
    /\ vendor = "aladdin"
    /\ dev \in DeviceStates
    /\ prev = NoCall
    /\ last = NoCall @@ [sent |-> <<>>]
    /\ ParseIdle
    /\ PanelIdle
    /\ StartIdle

\* the device goes into alarm (stall, reset, time out, ...)
DeviceAlarm ==
    /\ dev.status # "A"
    /\ DeviceEvent("alarm", [dev EXCEPT !.status = "A"])
    /\ UNCHANGED <<vendor, parseVars, panelVars, startVars>>

\* the alarm is cleared at the device, which is left stopped
AlarmCleared ==
    /\ dev.status = "A"
    /\ DeviceEvent("alarm_cleared", [dev EXCEPT !.status = "S"])
    /\ UNCHANGED <<vendor, parseVars, panelVars, startVars>>

GetAlarmDiameter ==
    /\ CallDone("get_diameter_mm", 0, 0, AlaGetDiameter(dev))
    /\ UNCHANGED <<vendor, parseVars, panelVars, startVars>>

GetAlarmTarget ==
    /\ CallDone("get_target_volume_uL", 0, 0, AlaGetTargetVolume(dev))
    /\ UNCHANGED <<vendor, parseVars, panelVars, startVars>>

NextAlarm ==
    \/ DeviceAlarm
    \/ AlarmCleared
    \/ Start
    \/ Stop
    \/ IsRunning
    \/ GetDirection
    \/ SetDirection
    \/ Reverse
    \/ SetRunTarget
    \/ GetAlarmDiameter
    \/ GetAlarmTarget
    \/ TargetReached

SpecAlarm == InitAlarm /\ [][NextAlarm]_vars

\* no command appears twice among those one call has written
NoResend(sent) == \A i, j \in 1..Len(sent) : i # j => sent[i] # sent[j]

\* C17: a call that writes to a device in alarm writes one command, which
\* receives the alarm, and raises the alarm to its caller; a call that ends
\* with an exception has written no command twice.
C17_AlarmEndsTheCommand ==
    [][/\ (dev.status = "A" /\ last'.sent # <<>>) =>
              (last'.exc = "Alarm" /\ Len(last'.sent) = 1)
       /\ last'.exc # NoExc => NoResend(last'.sent)]_vars

\* set_target_volume_uL, which writes DIA then VOL, stopped at DIA by the alarm
C17_Reached ==
    /\ last.op = "set_target_volume_uL"
    /\ last.exc = "Alarm"
    /\ last.sent = <<Cmd("DIA", <<>>)>>
    /\ dev.status = "A"

-----------------------------------------------------------------------------
(* Reception of one answer by AladdinPump.send_command: read_until(ETX),   *)
(* decode(), parse() and the checks that follow.  A byte is a one-element  *)
(* text; STX and ETX stand for 0x02 and 0x03, BadByte for a byte that is   *)
(* not valid UTF-8 (0xFF).                                                 *)

STX == "STX"

ETX == "ETX"

BadByte == "0xFF"

\* the bytes the line may deliver
WireBytes == {STX, ETX, "0", "S", "A", "?", "\n", BadByte}

MaxLine == 5

EndsWithETX(s) == s # <<>> /\ s[Len(s)] = ETX

\* bytes.decode(): strict UTF-8
Decode(bs) ==
    IF Contains(bs, BadByte) THEN [exc |-> "UnicodeDecodeError", text |-> <<>>]
    ELSE [exc |-> NoExc, text |-> bs]

\* length of the status group at position 4 of s: [IWSPTU] | A\?[RSTEO]; 0 if none
StatusLen(s) ==
    IF Len(s) >= 4 /\ s[4] \in {"I", "W", "S", "P", "T", "U"} THEN 1
    ELSE IF Len(s) >= 6 /\ s[4] = "A" /\ s[5] = "?" /\ s[6] \in {"R", "S", "T", "E", "O"}
         THEN 3
    ELSE 0

\* re.match of __ANS_PATTERN: '.' is any character but a newline, '$' is
\* the end of the text or the place before a newline that ends it
ANS_PATTERN(s) ==
    LET n    == StatusLen(s)
        last_ == IF EndsWithETX(s) THEN Len(s)
                 ELSE IF Len(s) >= 2 /\ s[Len(s)] = "\n" /\ s[Len(s) - 1] = ETX
                      THEN Len(s) - 1
                 ELSE 0
        ok   == /\ Len(s) >= 3 /\ s[1] = STX /\ IsDigit(s[2]) /\ IsDigit(s[3])
                /\ n > 0
                /\ last_ > 3 + n
                /\ ~Contains(SubSeq(s, 4 + n, last_ - 1), "\n")
    IN  IF ok THEN [ok |-> TRUE, address |-> SubSeq(s, 2, 3),
                    status |-> SubSeq(s, 4, 3 + n),
                    message |-> SubSeq(s, 4 + n, last_ - 1)]
        ELSE [ok |-> FALSE, address |-> <<>>, status |-> <<>>, message |-> <<>>]

\* AladdinPump.parse
parse(value) ==
    LET m == ANS_PATTERN(value)
    IN  IF ~m.ok
        THEN [exc |-> "InvalidAnswer", address |-> <<>>, status |-> <<>>, message |-> <<>>]
        ELSE [exc |-> NoExc, address |-> m.address, status |-> m.status,
              message |-> m.message]

\* AladdinPump.send_command from the bytes read_until gave it: what it
\* raises, or the Response it returns
send_command(bytes) ==
    LET ans == Decode(bytes)
        Checked(r) ==
            IF r.exc # NoExc THEN r
            ELSE IF HasSub(r.status, <<"A", "?">>) THEN [r EXCEPT !.exc = "Alarm"]
            ELSE IF Contains(r.message, "?")
                 THEN IF HasSub(r.message, <<"?", "O", "O", "R">>)
                      THEN [r EXCEPT !.exc = "ValueOOR"]
                      ELSE IF HasSub(r.message, <<"?", "N", "A">>)
                           THEN [r EXCEPT !.exc = "InvalidCommand"]
                      ELSE [r EXCEPT !.exc = "Unforeseen"]
            ELSE r
    IN  IF ans.exc # NoExc
        THEN [exc |-> ans.exc, address |-> <<>>, status |-> <<>>, message |-> <<>>]
        ELSE Checked(parse(ans.text))

InitParse ==
    /\ vendor = "aladdin"
    /\ dev \in {d \in DeviceStates : d.diam = 10000}
    /\ prev = NoCall
    /\ last = NoCall @@ [sent |-> <<>>]
    /\ ParseIdle
    /\ PanelIdle
    /\ StartIdle

Reading == answer = NoAnswer /\ ~timedOut /\ ~EndsWithETX(line)

\* read_until: one more byte arrives before the timeout
ReadByte ==
    /\ Reading
    /\ Len(line) < MaxLine
    /\ \E b \in WireBytes : line' = Append(line, b)
    /\ UNCHANGED <<pumpVars, panelVars, timedOut, answer, startVars>>

\* read_until: the timeout expires before ETX arrives; what was read so
\* far, possibly nothing, is returned
ReadTimesOut ==
    /\ Reading
    /\ timedOut' = TRUE
    /\ UNCHANGED <<pumpVars, panelVars, line, answer, startVars>>

\* the rest of send_command, once read_until has returned
AnswerReceived ==
    /\ answer = NoAnswer
    /\ timedOut \/ EndsWithETX(line)
    /\ answer' = send_command(line)
    /\ UNCHANGED <<pumpVars, panelVars, line, timedOut, startVars>>

\* the next send_command flushes the input and writes its command
NextCommand ==
    /\ answer # NoAnswer
    /\ line' = <<>>
    /\ timedOut' = FALSE
    /\ answer' = NoAnswer
    /\ UNCHANGED <<pumpVars, panelVars, startVars>>

NextParse == ReadByte \/ ReadTimesOut \/ AnswerReceived \/ NextCommand

SpecParse == InitParse /\ [][NextParse]_vars

\* C10: for every received byte sequence that does not end with 0x03
\* (the empty and the partial ones of a timeout included), the exchange
\* ends with SyringePumpInvalidAnswerException, never with a Response.
C10_UnterminatedIsInvalidAnswer ==
    (answer # NoAnswer /\ ~EndsWithETX(line)) => answer.exc = "InvalidAnswer"

\* what does hold: an unterminated sequence never yields a Response, and
\* one that decodes is refused by parse() with InvalidAnswer
UnterminatedNeverAnswers ==
    (answer # NoAnswer /\ ~EndsWithETX(line)) =>
        /\ answer.exc \in {"InvalidAnswer", "UnicodeDecodeError"}
        /\ ~Contains(line, BadByte) => answer.exc = "InvalidAnswer"

\* C13: when the read runs into the timeout before any terminator has
\* arrived, the command raises ReadTimeoutException, not the
\* SyringePumpInvalidAnswerException of a malformed answer.
C13_SilenceIsReadTimeout ==
    (answer # NoAnswer /\ timedOut) => answer.exc = "ReadTimeout"

-----------------------------------------------------------------------------
(* SpecFrame: AladdinPump.send_command given whole, well-formed frames:    *)
(* STX, two address digits, a status, a message, ETX.  The frame may come  *)
(* from any pump of the chain, not only from the one addressed.            *)

\* addresses a pump may be configured with, and a frame may carry
Addresses == {0, 7, 42, 99}

\* f"{address:02d}"
TwoDigits(a) == IF a < 10 THEN <<"0">> \o DecDigits(a) ELSE DecDigits(a)

\* the alarm sub-codes of __ANS_PATTERN: __ANS_ALARM_*
AlarmCodes == {"R", "S", "T", "E", "O"}

\* the status fields of __ANS_PATTERN
FrameStatuses ==
    {<<c>> : c \in {"I", "W", "S", "P", "T", "U"}} \cup {<<"A", "?", c>> : c \in AlarmCodes}

\* messages a frame may carry: none, a rate, and the error answers
FrameMessages ==
    {<<>>, <<"1", ".", "2", "3", "4", "M", "H">>, <<"?", "O", "O", "R">>,
     <<"?", "N", "A">>, <<"?">>}

Frame(a, st, msg) == <<STX>> \o TwoDigits(a) \o st \o msg \o <<ETX>>

Frames == {Frame(a, st, msg) : a \in Addresses, st \in FrameStatuses, msg \in FrameMessages}

InitFrame ==
    /\ vendor = "aladdin"
    /\ dev \in {d \in DeviceStates : d.diam = 10000}
    /\ prev = NoCall
    /\ last = NoCall @@ [sent |-> <<>>]
    /\ ParseIdle
    /\ PanelIdle
    /\ address \in Addresses
    /\ boot = NoBoot
    /\ wire = <<>>
    /\ elite = NoStatus

\* read_until returns a whole frame
FrameArrives ==
    /\ answer = NoAnswer
    /\ line = <<>>
    /\ line' \in Frames
    /\ UNCHANGED <<pumpVars, panelVars, startVars, timedOut, answer>>

NextFrame == FrameArrives \/ AnswerReceived \/ NextCommand

SpecFrame == InitFrame /\ [][NextFrame]_vars

\* the frame received is well formed and echoes another address than the pump's
ForeignFrame == line \in Frames /\ SubSeq(line, 2, 3) # TwoDigits(address)

\* C11: a well-formed frame whose two-digit address differs from the
\* address of the pump that sent the command is refused with
\* SyringePumpInvalidAnswerException; it is never taken as the answer.
C11_ForeignAddressIsInvalidAnswer ==
    (answer # NoAnswer /\ ForeignFrame) => answer.exc = "InvalidAnswer"

\* the frame received is from this pump and its status is A? plus sub-code c
AlarmFrame(c) ==
    /\ line \in Frames
    /\ SubSeq(line, 2, 3) = TwoDigits(address)
    /\ Len(line) >= 7
    /\ SubSeq(line, 4, 6) = <<"A", "?", c>>

\* the frame received, with sub-code c in place of its own
WithAlarmCode(c) == [line EXCEPT ![6] = c]

\* C12: for each alarm sub-code R, S, T, E, O, a well-formed frame with
\* status A? plus that sub-code makes the command raise an exception and
\* return no Response, and the class raised is the one of that sub-code:
\* the same frame with any other sub-code raises another class.
C12_AlarmSubtypePerCode ==
    \A c \in AlarmCodes :
        (answer # NoAnswer /\ AlarmFrame(c)) =>
            /\ answer.exc # NoExc
            /\ \A other \in AlarmCodes \ {c} :
                   send_command(WithAlarmCode(other)).exc # answer.exc

\* what does hold: every alarm frame raises AlarmException and gives no Response
AlarmAlwaysRaised ==
    \A c \in AlarmCodes :
        (answer # NoAnswer /\ AlarmFrame(c)) => answer.exc = "Alarm"

\* the frame received is the one with this status and this message
FrameIs(st, msg) == \E a \in Addresses : line = Frame(a, st, msg)

\* C21: an addressed frame whose message is "?" (token not recognised)
\* raises UnknownCommand as the same answer does on the simple-prompt
\* adapter, "?NA" raises InvalidCommand, "?OOR" raises ValueOOR, and a
\* frame that carries an alarm status raises the alarm whatever its message.
C21_RejectionsClassifiedAlike ==
    \A st \in FrameStatuses, msg \in FrameMessages :
        (answer # NoAnswer /\ FrameIs(st, msg)) =>
            answer.exc = IF HasSub(st, <<"A", "?">>) THEN "Alarm"
                         ELSE IF msg = <<"?">> THEN "UnknownCommand"
                         ELSE IF msg = <<"?", "N", "A">> THEN "InvalidCommand"
                         ELSE IF msg = <<"?", "O", "O", "R">> THEN "ValueOOR"
                         ELSE NoExc

\* what does hold: the same, with SyringePumpUnforeseenException for "?"
RejectionsButUnknownToken ==
    \A st \in FrameStatuses, msg \in FrameMessages :
        (answer # NoAnswer /\ FrameIs(st, msg)) =>
            answer.exc = IF HasSub(st, <<"A", "?">>) THEN "Alarm"
                         ELSE IF msg = <<"?">> THEN "Unforeseen"
                         ELSE IF msg = <<"?", "N", "A">> THEN "InvalidCommand"
                         ELSE IF msg = <<"?", "O", "O", "R">> THEN "ValueOOR"
                         ELSE NoExc

-----------------------------------------------------------------------------
(* DrugPumpPanel: the handlers the GUI thread runs one at a time           *)
(* (do_inject_drug, abort_injection, on_toggle_perf with update_from_pump) *)
(* and the watcher thread of a bolus (wait_for_end_of_injection).  Both    *)
(* call the same pump object; nothing in the panel or in the adapters      *)
(* serialises them.  A thread moves one pump call at a time: the call      *)
(* writes its first command (Writes), and later returns (Returns).         *)

\* the dose of the panel, in thousandths of a uL
DrugVolume == 500000

\* rates the operator may enter in the perfusion spin box, in thousandths:
\* 2.5 and 12.34 (two decimals, below 100: what a QDoubleSpinBox accepts
\* whatever DrugPumpPanel.ui sets)
PerfRates == {2500, 12340}

Threads == {"gui", "watcher"}

ThreadOf(t) == IF t = "gui" THEN gui ELSE watcher

WatcherAlive == watcher.pc \notin {"idle", "done", "died"}

\* one call of the pump API
Call(op, a, b, s) == [op |-> op, a |-> a, b |-> b, s |-> s]

\* the pump call a thread makes where it stands; "none" where it makes none
CallAt(th) ==
    CASE th.pc \in {"inj_get_rate", "upd_get_rate"} -> Call("get_rate", 0, 0, None)
      [] th.pc \in {"inj_get_units", "upd_get_units"} -> Call("get_units", 0, 0, None)
      [] th.pc \in {"inj_is_running", "inj_is_running2", "abt_is_running",
                    "tog_is_running", "upd_is_running", "poll"} ->
            Call("is_running", 0, 0, None)
      [] th.pc = "inj_get_direction" -> Call("get_direction", 0, 0, None)
      [] th.pc \in {"inj_stop", "abt_stop", "tog_stop"} -> Call("stop", 0, 0, None)
      [] th.pc = "inj_set_direction" -> Call("set_direction", 0, 0, INFUSING)
      [] th.pc = "inj_set_rate" ->
            Call("set_rate", DEFAULT_BOLUS_RATE, DEFAULT_BOLUS_RATE_UNITS, None)
      [] th.pc = "inj_set_target" -> Call("set_target_volume_uL", DrugVolume, 0, None)
      [] th.pc \in {"inj_start", "tog_start", "res_start"} -> Call("start", 0, 0, None)
      [] th.pc \in {"tog_set_rate", "res_set_rate"} ->
            Call("set_rate", th.rate, th.units, None)
      [] th.pc \in {"tog_clear", "res_clear"} -> Call("clear_target_volume", 0, 0, None)
      [] th.pc = "res_set_direction" -> Call("set_direction", 0, 0, th.dir)
      [] OTHER -> Call("none", 0, 0, None)

\* the call made on the pump object
PumpCall(v, d, c) ==
    CASE c.op = "get_rate" -> PumpGetRate(v, d)
      [] c.op = "get_units" -> PumpGetUnits(v, d)
      [] c.op = "is_running" -> PumpIsRunning(v, d)
      [] c.op = "get_direction" -> PumpGetDirection(v, d)
      [] c.op = "stop" -> PumpStop(v, d, TRUE)
      [] c.op = "start" -> PumpStart(v, d, TRUE)
      [] c.op = "set_direction" -> PumpSetDirection(v, d, c.s)
      [] c.op = "set_rate" -> PumpSetRate(v, d, c.a, c.b)
      [] c.op = "set_target_volume_uL" -> PumpSetTargetVolume(v, d, c.a)
      [] c.op = "clear_target_volume" -> PumpClearTargetVolume(v, d)

\* The GUI thread after the call it stands at has returned o.  An
\* exception ends the handler, but for SyringePumpValueOORException in
\* on_toggle_perf, which goes on to update_from_pump.
GuiAfter(o) ==
    LET ok       == o.exc = NoExc
        To(pc)   == IF ok THEN [gui EXCEPT !.pc = pc] ELSE NoThread
        Try(pc)  == IF ok \/ o.exc = "ValueOOR" THEN [gui EXCEPT !.pc = pc] ELSE NoThread
        If(a, b) == IF ~ok THEN NoThread
                    ELSE IF o.val = PyTrue THEN [gui EXCEPT !.pc = a]
                    ELSE [gui EXCEPT !.pc = b]
    IN  CASE gui.pc = "inj_get_rate" ->
                IF ok THEN [gui EXCEPT !.pc = "inj_is_running", !.rate = o.val]
                ELSE NoThread
          [] gui.pc = "inj_is_running" ->
                IF ~ok THEN NoThread
                ELSE IF o.val = PyTrue THEN [gui EXCEPT !.pc = "inj_get_direction"]
                ELSE [gui EXCEPT !.pc = "inj_get_units", !.dir = STOPPED]
          [] gui.pc = "inj_get_direction" ->
                IF ok THEN [gui EXCEPT !.pc = "inj_get_units", !.dir = o.val]
                ELSE NoThread
          [] gui.pc = "inj_get_units" ->
                IF ok THEN [gui EXCEPT !.pc = "inj_is_running2", !.units = o.val]
                ELSE NoThread
          [] gui.pc = "inj_is_running2" -> If("inj_stop", "inj_set_direction")
          [] gui.pc = "inj_stop" -> To("inj_set_direction")
          [] gui.pc = "inj_set_direction" -> To("inj_set_rate")
          [] gui.pc = "inj_set_rate" -> To("inj_set_target")
          [] gui.pc = "inj_set_target" -> To("inj_start")
          [] gui.pc = "inj_start" -> NoThread
          [] gui.pc = "abt_is_running" -> If("abt_stop", "abt_wait")
          [] gui.pc = "abt_stop" -> To("abt_wait")
          [] gui.pc = "tog_is_running" -> If("tog_stop", "tog_set_rate")
          [] gui.pc = "tog_stop" -> To("upd_get_rate")
          [] gui.pc = "tog_set_rate" ->
                IF ok THEN [gui EXCEPT !.pc = "tog_clear"] ELSE Try("upd_get_rate")
          [] gui.pc = "tog_clear" ->
                IF ok THEN [gui EXCEPT !.pc = "tog_start"] ELSE Try("upd_get_rate")
          [] gui.pc = "tog_start" -> Try("upd_get_rate")
          [] gui.pc = "upd_get_rate" ->
                IF ok THEN [gui EXCEPT !.pc = "upd_get_units", !.rate = o.val]
                ELSE NoThread
          [] gui.pc = "upd_get_units" ->
                IF ok THEN [gui EXCEPT !.pc = "upd_is_running", !.units = o.val]
                ELSE NoThread
          [] gui.pc = "upd_is_running" ->
                \* setChecked(False) on a checked button emits toggled, which
                \* runs on_toggle_perf again before update_from_pump goes on
                IF ok /\ o.val = PyFalse /\ ui.perfChecked
                THEN [gui EXCEPT !.pc = "tog_is_running"]
                ELSE NoThread

\* The watcher thread after the call it stands at has returned o.  An
\* exception ends the thread.
WatcherAfter(o) ==
    LET ok     == o.exc = NoExc
        Died   == [watcher EXCEPT !.pc = "died"]
        To(pc) == IF ok THEN [watcher EXCEPT !.pc = pc] ELSE Died
    IN  CASE watcher.pc = "poll" ->
                IF ~ok THEN Died
                ELSE IF o.val = PyTrue THEN watcher
                ELSE [watcher EXCEPT !.pc = "res_set_rate"]
          [] watcher.pc = "res_set_rate" ->
                IF watcher.dir = STOPPED THEN To("upd_get_rate")
                ELSE To("res_set_direction")
          [] watcher.pc = "res_set_direction" -> To("res_clear")
          [] watcher.pc = "res_clear" -> To("res_start")
          [] watcher.pc = "res_start" -> To("upd_get_rate")
          [] watcher.pc = "upd_get_rate" ->
                IF ok THEN [watcher EXCEPT !.pc = "upd_get_units", !.rate = o.val]
                ELSE Died
          [] watcher.pc = "upd_get_units" ->
                IF ok THEN [watcher EXCEPT !.pc = "upd_is_running", !.units = o.val]
                ELSE Died
          [] watcher.pc = "upd_is_running" -> To("done")

InitPanel ==
    /\ vendor \in Vendors
    /\ dev \in {d \in DeviceStates : d.diam = 10000}
    /\ prev = NoCall
    /\ last = NoCall @@ [sent |-> <<>>]
    /\ ParseIdle
    /\ PanelIdle
    /\ StartIdle

\* the operator clicks a dose button: do_inject_drug begins.  (A dose asked
\* for while the watcher of the previous one is still restoring is left out.)
ClickDose ==
    /\ gui.pc = "idle" /\ ui.injectEnabled /\ ~ui.toggled /\ ~WatcherAlive
    /\ gui' = [NoThread EXCEPT !.pc = "inj_get_rate"]
    /\ hist' = [NoBolus EXCEPT !.before = dev.status, !.R = dev.rate, !.U = dev.units]
    /\ UNCHANGED <<pumpVars, parseVars, watcher, io, ui, startVars, inject>>

\* the operator clicks Abort, shown while the dose buttons are disabled
ClickAbort ==
    /\ gui.pc = "idle" /\ ~ui.injectEnabled /\ ~ui.toggled
    /\ gui' = [NoThread EXCEPT !.pc = "abt_is_running"]
    /\ hist' = [hist EXCEPT !.operated = TRUE]
    /\ UNCHANGED <<pumpVars, parseVars, watcher, io, ui, startVars, inject>>

\* the operator clicks the perfusion button, with some rate in the spin box
TogglePerf ==
    /\ gui.pc = "idle" /\ ~ui.toggled
    /\ \E r \in PerfRates : gui' = [NoThread EXCEPT !.pc = "tog_is_running", !.rate = r]
    /\ ui' = [ui EXCEPT !.perfChecked = ~@]
    /\ hist' = [hist EXCEPT !.operated = TRUE, !.aborted = FALSE]
    /\ UNCHANGED <<pumpVars, parseVars, watcher, io, startVars, inject>>

\* toggled, emitted by the watcher's update_from_pump, reaches the GUI
\* thread: on_toggle_perf with what update_from_pump put in the spin box
QueuedToggle ==
    /\ gui.pc = "idle" /\ ui.toggled
    /\ gui' = [NoThread EXCEPT !.pc = "tog_is_running",
                               !.rate = watcher.rate, !.units = watcher.units]
    /\ ui' = [ui EXCEPT !.toggled = FALSE]
    /\ UNCHANGED <<pumpVars, parseVars, watcher, io, hist, startVars, inject>>

\* a pump call of thread t writes its first command to the transport
Writes(t) ==
    /\ CallAt(ThreadOf(t)).op # "none"
    /\ ~io[t]
    /\ PumpCall(vendor, dev, CallAt(ThreadOf(t))).sent # <<>>
    /\ io' = [io EXCEPT ![t] = TRUE]
    /\ UNCHANGED <<pumpVars, parseVars, gui, watcher, ui, hist, startVars, inject>>

\* the pump call the GUI thread stands at returns or raises
GuiReturns ==
    /\ CallAt(gui).op # "none"
    /\ LET Done(o) ==
            LET ok     == o.exc = NoExc
                launch == gui.pc = "inj_start" /\ ok
            IN  /\ io["gui"] \/ o.sent = <<>>
                /\ o.dev.timers <= MaxTimers
                /\ dev' = o.dev
                /\ io' = [io EXCEPT !["gui"] = FALSE]
                /\ gui' = GuiAfter(o)
                /\ watcher' = IF launch
                              THEN [pc |-> "poll", rate |-> gui.rate,
                                    units |-> gui.units, dir |-> gui.dir]
                              ELSE watcher
                /\ ui' = [ui EXCEPT
                            !.injectEnabled = IF launch THEN FALSE ELSE @,
                            !.perfChecked = IF gui.pc = "upd_is_running" /\ ok
                                            THEN o.val = PyTrue ELSE @]
                /\ hist' = [hist EXCEPT
                              !.launched = @ \/ launch,
                              !.aborted = @ \/ (gui.pc = "abt_stop" /\ ok)]
       IN  Done(PumpCall(vendor, dev, CallAt(gui)))
    /\ UNCHANGED <<vendor, prev, last, parseVars, startVars, inject>>

\* the pump call the watcher thread stands at returns or raises
WatcherReturns ==
    /\ CallAt(watcher).op # "none"
    /\ LET Done(o) ==
            LET ok == o.exc = NoExc
            IN  /\ io["watcher"] \/ o.sent = <<>>
                /\ o.dev.timers <= MaxTimers
                /\ dev' = o.dev
                /\ io' = [io EXCEPT !["watcher"] = FALSE]
                /\ watcher' = WatcherAfter(o)
                /\ ui' = [ui EXCEPT
                            !.injectEnabled =
                                IF watcher.pc = "poll" /\ ok /\ o.val = PyFalse
                                THEN TRUE ELSE @,
                            !.perfChecked = IF watcher.pc = "upd_is_running" /\ ok
                                            THEN o.val = PyTrue ELSE @,
                            !.toggled = @ \/ (/\ watcher.pc = "upd_is_running" /\ ok
                                              /\ o.val = PyFalse /\ ui.perfChecked)]
       IN  Done(PumpCall(vendor, dev, CallAt(watcher)))
    /\ UNCHANGED <<vendor, prev, last, parseVars, gui, hist, startVars, inject>>

\* abort_injection leaves its wait loop once the watcher thread is dead
AbortWaits ==
    /\ gui.pc = "abt_wait" /\ ~WatcherAlive
    /\ gui' = NoThread
    /\ ui' = [ui EXCEPT !.injectEnabled = TRUE]
    /\ UNCHANGED <<pumpVars, parseVars, watcher, io, hist, startVars, inject>>

\* the device has delivered the target volume and stops by itself
BolusDelivered ==
    /\ vendor # "dummy"
    /\ Running(dev) /\ dev.target > 0
    /\ dev' = [dev EXCEPT !.status = "S", !.reached = TRUE]
    /\ hist' = [hist EXCEPT !.selfStopped = @ \/ (hist.launched /\ WatcherAlive)]
    /\ UNCHANGED <<vendor, prev, last, parseVars, gui, watcher, io, ui, startVars, inject>>

\* a singleShot timer armed by DummyPump.start fires: lambda: self.stop()
TimerExpires ==
    /\ vendor = "dummy"
    /\ dev.timers > 0
    /\ dev' = [DummyStop(dev).dev EXCEPT !.timers = @ - 1]
    /\ hist' = [hist EXCEPT
                  !.selfStopped = @ \/ (Running(dev) /\ hist.launched /\ WatcherAlive)]
    /\ UNCHANGED <<vendor, prev, last, parseVars, gui, watcher, io, ui, startVars, inject>>

NextPanel ==
    \/ ClickDose
    \/ ClickAbort
    \/ TogglePerf
    \/ QueuedToggle
    \/ \E t \in Threads : Writes(t)
    \/ GuiReturns
    \/ WatcherReturns
    \/ AbortWaits
    \/ BolusDelivered
    \/ TimerExpires

SpecPanel == InitPanel /\ [][NextPanel]_vars

\* C4: a bolus asked for while the pump infuses continuously at rate R,
\* unit U ends, once the device has stopped by itself and the watcher has
\* finished (the operator having touched nothing meanwhile), with the pump
\* infusing again at R, U with no target volume; a pump that was stopped
\* before the bolus is stopped after it.
C4_BolusRestoresPerfusion ==
    (watcher.pc = "done" /\ hist.launched /\ hist.selfStopped /\ ~hist.operated) =>
        /\ hist.before = "I" =>
              (dev.status = "I" /\ dev.rate = hist.R /\ dev.units = hist.U
                  /\ dev.target = 0)
        /\ hist.before \in {"S", "P"} => ~Running(dev)

\* C5: once abort_injection has stopped a running bolus, the pump stays
\* stopped until the operator's next command.
C5_AbortLeavesPumpStopped == hist.aborted => ~Running(dev)

\* C6: the GUI thread and the watcher thread are never both inside a
\* command exchange on the pump's transport.
C6_OneExchangeAtATime == ~(io["gui"] /\ io["watcher"])

-----------------------------------------------------------------------------
(* SpecBolus: DrugPumpPanel handler by handler.  Each handler of the GUI   *)
(* thread runs to its end in one step; every watcher thread is followed    *)
(* from its polling loop to its end, the former ones as well as the one    *)
(* self._waitThread names (the last started).                              *)

\* most watcher threads one panel starts in the model
MaxThreads == 2

\* the bolus rate of the pump: the default, or 0 restored from the settings
\* saved by an earlier session
BolusRates == {DEFAULT_BOLUS_RATE, 0}

\* a watcher thread: where it stands, its three arguments, and whether it
\* has called enable_inject_buttons(True)
Thread(pc, rate, units, dir, enabled) ==
    [pc |-> pc, rate |-> rate, units |-> units, dir |-> dir, enabled |-> enabled]

ThreadIds == 1..MaxThreads

Started(i) == i \in 1..Len(inject.threads)

Polling(i) == Started(i) /\ inject.threads[i].pc = "poll"

Alive(i) == Started(i) /\ inject.threads[i].pc \in {"poll", "restore"}

\* DrugPumpPanel.do_inject_drug up to the start of the thread: the pump after
\* it, what it raised (ValueOOR is caught and ends it like the others), and
\* the arguments of the thread when it gets to start one
InjectDrug(v, d, rate, volume) ==
    LET Fail(o) == [dev |-> o.dev, exc |-> o.exc, launch |-> FALSE,
                    rate |-> 0, units |-> 0, dir |-> STOPPED]
        Launched(c, o) ==
            IF o.exc # NoExc THEN Fail(o)
            ELSE [dev |-> o.dev, exc |-> NoExc, launch |-> TRUE,
                  rate |-> c.rate, units |-> c.units, dir |-> c.dir]
        Targeted(c, o) ==
            IF o.exc # NoExc THEN Fail(o) ELSE Launched(c, PumpStart(v, o.dev, TRUE))
        Rated(c, o) ==
            IF o.exc # NoExc THEN Fail(o)
            ELSE Targeted(c, PumpSetTargetVolume(v, o.dev, volume))
        Directed(c, o) ==
            IF o.exc # NoExc THEN Fail(o)
            ELSE Rated(c, PumpSetRate(v, o.dev, rate, DEFAULT_BOLUS_RATE_UNITS))
        Stopped(c, o) ==
            IF o.exc # NoExc THEN Fail(o)
            ELSE Directed(c, PumpSetDirection(v, o.dev, INFUSING))
        Tried(c, o) ==
            IF o.exc # NoExc THEN Fail(o)
            ELSE IF o.val = PyTrue THEN Stopped(c, PumpStop(v, o.dev, TRUE))
            ELSE Stopped(c, o)
        GotUnits(c, o) ==
            IF o.exc # NoExc THEN Fail(o)
            ELSE Tried([c EXCEPT !.units = o.val], PumpIsRunning(v, o.dev))
        GotDir(c, o) ==
            IF o.exc # NoExc THEN Fail(o)
            ELSE GotUnits([c EXCEPT !.dir = o.val], PumpGetUnits(v, o.dev))
        Asked(c, o) ==
            IF o.exc # NoExc THEN Fail(o)
            ELSE IF o.val = PyTrue THEN GotDir(c, PumpGetDirection(v, o.dev))
            ELSE GotUnits(c, PumpGetUnits(v, o.dev))
        GotRate(o) ==
            IF o.exc # NoExc THEN Fail(o)
            ELSE Asked([rate |-> o.val, units |-> 0, dir |-> STOPPED],
                       PumpIsRunning(v, o.dev))
    IN  GotRate(PumpGetRate(v, d))

\* the statement after a pump call: what follows is worked out from the
\* outcome of the call, the call itself being made once
AndThen(Rest(_), outcome) == CHOOSE r \in {Rest(o) : o \in {outcome}} : TRUE

\* DrugPumpPanel.update_from_pump, for the pump calls it makes
UpdateFromPump(v, d) ==
    LET Last(o) == Outcome(o.dev, o.exc, None, <<>>)
        GotUnits(o) ==
            IF o.exc # NoExc THEN Last(o) ELSE AndThen(Last, PumpIsRunning(v, o.dev))
        GotRate(o) ==
            IF o.exc # NoExc THEN Last(o) ELSE AndThen(GotUnits, PumpGetUnits(v, o.dev))
    IN  AndThen(GotRate, PumpGetRate(v, d))

\* wait_for_end_of_injection once the loop is left: set_rate, then
\* set_direction, clear_target_volume and start unless the pump was
\* stopped before the bolus, then update_from_pump
RestorePump(v, d, th) ==
    LET Last(o) == Outcome(o.dev, o.exc, None, <<>>)
        Restarted(o) == IF o.exc # NoExc THEN Last(o) ELSE UpdateFromPump(v, o.dev)
        Cleared(o) ==
            IF o.exc # NoExc THEN Last(o)
            ELSE AndThen(Restarted, PumpStart(v, o.dev, TRUE))
        Directed(o) ==
            IF o.exc # NoExc THEN Last(o)
            ELSE AndThen(Cleared, PumpClearTargetVolume(v, o.dev))
        Rated(o) ==
            IF o.exc # NoExc THEN Last(o)
            ELSE IF th.dir = STOPPED THEN UpdateFromPump(v, o.dev)
            ELSE AndThen(Directed, PumpSetDirection(v, o.dev, th.dir))
    IN  AndThen(Rated, PumpSetRate(v, d, th.rate, th.units))

\* DrugPumpPanel.abort_injection up to its wait loop
AbortInjection(v, d) ==
    LET Last(o) == Outcome(o.dev, o.exc, None, <<>>)
        Asked(o) ==
            IF o.exc # NoExc THEN Last(o)
            ELSE IF o.val = PyTrue THEN Last(PumpStop(v, o.dev, TRUE))
            ELSE Last(o)
    IN  Asked(PumpIsRunning(v, d))

InitBolus ==
    /\ vendor \in Vendors
    /\ \E d \in DeviceStates, st \in {"S", "I"} :
          /\ d.diam = 10000
          /\ st = "I" => vendor # "dummy"
          /\ dev = [d EXCEPT !.status = st]
    /\ prev = NoCall
    /\ last = NoCall @@ [sent |-> <<>>]
    /\ ParseIdle
    /\ gui = NoThread
    /\ watcher = NoThread
    /\ io = [t \in {"gui", "watcher"} |-> FALSE]
    /\ ui = [injectEnabled |-> TRUE, perfChecked |-> FALSE, toggled |-> FALSE]
    /\ hist = NoBolus
    /\ \E r \in BolusRates : inject = [NoInject EXCEPT !.bolus_rate = r]
    /\ StartIdle

\* do_inject_drug(volume), entered from a dose button or from the PumpTimer
DoInjectDrug(volume) ==
    LET Done(r) ==
            /\ r.dev.timers <= MaxTimers
            /\ CallDone("do_inject_drug", volume, 0,
                        Outcome(r.dev, r.exc, PyBool(r.launch), <<>>))
            /\ ui' = [ui EXCEPT !.injectEnabled = IF r.launch THEN FALSE ELSE @]
            /\ inject' = IF r.launch
                         THEN [inject EXCEPT
                                 !.threads = Append(@, Thread("poll", r.rate, r.units,
                                                              r.dir, FALSE)),
                                 !.clock = TRUE]
                         ELSE inject
    IN  /\ Len(inject.threads) < MaxThreads
        /\ \E r \in {InjectDrug(vendor, dev, inject.bolus_rate, volume)} : Done(r)
        /\ UNCHANGED <<vendor, parseVars, gui, watcher, io, hist, startVars>>

\* on_full_dose_button_click, on_half_dose_button_click
DoseClicked ==
    /\ gui.pc = "idle" /\ ui.injectEnabled
    /\ \E volume \in {DrugVolume, DrugVolume \div 2} : DoInjectDrug(volume)

\* on_toggle_auto_inject
AutoInjectToggled ==
    /\ gui.pc = "idle"
    /\ inject' = [inject EXCEPT !.auto = ~@]
    /\ UNCHANGED <<pumpVars, parseVars, gui, watcher, io, ui, hist, startVars>>

\* on_choice_alarm: a delay is chosen, or the alarm is switched off
AlarmChosen ==
    /\ gui.pc = "idle"
    /\ inject' = [inject EXCEPT !.thresh = ~@]
    /\ UNCHANGED <<pumpVars, parseVars, gui, watcher, io, ui, hist, startVars>>

\* DrugTimer.on_clock_timer past the delay: PumpTimer.trigger_alarm calls
\* on_full_dose_button_click when auto-inject is checked
AlarmInjects ==
    /\ gui.pc = "idle"
    /\ inject.clock /\ inject.thresh /\ inject.auto
    /\ DoInjectDrug(DrugVolume)

\* abort_injection, from the Abort button shown while the dose buttons are
\* disabled
AbortClicked ==
    /\ gui.pc = "idle" /\ ~ui.injectEnabled
    /\ LET Done(o) ==
            /\ CallDone("abort_injection", 0, 0, o)
            /\ gui' = IF o.exc = NoExc THEN [NoThread EXCEPT !.pc = "abt_wait"]
                      ELSE NoThread
       IN  \E o \in {AbortInjection(vendor, dev)} : Done(o)
    /\ UNCHANGED <<vendor, parseVars, watcher, io, ui, hist, inject, startVars>>

\* abort_injection leaves its loop: self._waitThread is no longer alive
AbortEnds ==
    /\ gui.pc = "abt_wait"
    /\ ~Alive(Len(inject.threads))
    /\ gui' = NoThread
    /\ ui' = [ui EXCEPT !.injectEnabled = TRUE]
    /\ UNCHANGED <<pumpVars, parseVars, watcher, io, hist, inject, startVars>>

\* one turn of the loop of wait_for_end_of_injection in thread i, and
\* enable_inject_buttons(True) when it leaves the loop
WatcherPolls(i) ==
    /\ Polling(i)
    /\ LET Done(o) ==
            /\ CallDone("poll", i, 0, o)
            /\ inject' = [inject EXCEPT
                            !.threads[i].pc = IF o.exc # NoExc THEN "died"
                                              ELSE IF o.val = PyTrue THEN "poll"
                                              ELSE "restore",
                            !.threads[i].enabled = o.exc = NoExc /\ o.val = PyFalse]
            /\ ui' = [ui EXCEPT !.injectEnabled =
                                    IF o.exc = NoExc /\ o.val = PyFalse THEN TRUE ELSE @]
       IN  \E o \in {PumpIsRunning(vendor, dev)} : Done(o)
    /\ UNCHANGED <<vendor, parseVars, gui, watcher, io, hist, startVars>>

\* the rest of wait_for_end_of_injection in thread i
WatcherRestores(i) ==
    /\ Started(i) /\ inject.threads[i].pc = "restore"
    /\ LET Done(o) ==
            /\ o.dev.timers <= MaxTimers
            /\ CallDone("restore", i, 0, o)
            /\ inject' = [inject EXCEPT
                            !.threads[i].pc = IF o.exc # NoExc THEN "died" ELSE "done"]
       IN  \E o \in {RestorePump(vendor, dev, inject.threads[i])} : Done(o)
    /\ UNCHANGED <<vendor, parseVars, gui, watcher, io, ui, hist, startVars>>

\* the device of an AladdinPump goes into alarm, or its alarm is cleared
BolusAlarm ==
    /\ vendor = "aladdin"
    /\ DeviceAlarm \/ AlarmCleared

NextBolus ==
    \/ DoseClicked
    \/ AutoInjectToggled
    \/ AlarmChosen
    \/ AlarmInjects
    \/ AbortClicked
    \/ AbortEnds
    \/ \E i \in ThreadIds : WatcherPolls(i)
    \/ \E i \in ThreadIds : WatcherRestores(i)
    \/ TargetReached
    \/ DummyTimerFires
    \/ BolusAlarm

SpecBolus == InitBolus /\ [][NextBolus]_vars

\* C26: at most one watcher thread of a panel is alive at any time, from
\* whichever of the dose buttons and the PumpTimer the doses are asked.
C26_OneWatcherAlive == Cardinality({i \in ThreadIds : Alive(i)}) <= 1

\* the threads are scheduled and their pump calls return; a device that
\* infuses towards a target volume reaches it; the timer of a DummyPump
\* fires; the GUI thread in abort_injection wakes from its sleep
SpecBolusLive ==
    /\ SpecBolus
    /\ \A i \in ThreadIds : WF_vars(WatcherPolls(i)) /\ WF_vars(WatcherRestores(i))
    /\ WF_vars(TargetReached)
    /\ WF_vars(DummyTimerFires)
    /\ WF_vars(AbortEnds)

\* wait_for_end_of_injection has returned or was left by an exception
Exited(i) == Started(i) /\ inject.threads[i].pc \in {"done", "died"}

\* the device comes to a stop for good
DeviceStops == <>[](~Running(dev))

\* C30: when the device eventually stops, every watcher leaves its loop,
\* re-enables the inject buttons and exits, also when a pump command
\* raises inside it, and the wait loop of abort_injection terminates.
C30_WatcherExitsAndEnables ==
    DeviceStops =>
        /\ \A i \in ThreadIds :
              Started(i) ~> (Exited(i) /\ inject.threads[i].enabled)
        /\ (gui.pc = "abt_wait") ~> (gui.pc = "idle")

\* the step is a do_inject_drug that ended in its except clause
InjectRefused == last'.op = "do_inject_drug" /\ last'.exc = "ValueOOR"

\* C27: when do_inject_drug ends with ValueOOR no bolus is started and the
\* pump is as it was before the call: one that was infusing at a rate is
\* still infusing, at that rate, in that unit and that direction.
C27_RefusedBolusLeavesPump ==
    [][InjectRefused =>
          /\ inject'.threads = inject.threads
          /\ Running(dev) =>
                /\ dev'.status = dev.status /\ dev'.dir = dev.dir
                /\ dev'.rate = dev.rate /\ dev'.units = dev.units]_vars

\* what does hold: no thread is started, the rate and the unit are those
\* of before, and the pump is not running
RefusedBolusLeavesPumpStopped ==
    [][InjectRefused =>
          /\ inject'.threads = inject.threads
          /\ dev'.rate = dev.rate /\ dev'.units = dev.units
          /\ ~Running(dev')]_vars

-----------------------------------------------------------------------------
(* SpecBoot: the pump bring-up of StartDialog.__init__.  For every entry   *)
(* of the configuration it constructs the adapter and probes it with       *)
(* is_running(), three times in a row at most before it asks the operator  *)
(* whether to retry.  The constructor and the probe are followed exchange  *)
(* by exchange; the line may be in a different condition at each.          *)

\* pump entries of config["syringe-pump"]["pumps"]
MaxPumps == 2

\* times the operator answers Yes to "Retry?" for one entry before answering No
MaxYes == 1

\* for _ in range(3)
Attempts == 3

\* one step of a constructor or of is_running(): what it writes, if anything
BootStep(part, op, text) == [part |-> part, op |-> op, text |-> text]

CR == "\r"

\* the steps of model(...) followed by pump.is_running(), per adapter class
BootSteps(v, a) ==
    CASE v = "dummy" ->
            <<BootStep("ctor", "none", <<>>), BootStep("probe", "none", <<>>)>>
      [] v = "model11plus" ->
            <<BootStep("ctor", "serial", <<>>),
              BootStep("probe", "text", <<"V", "E", "R", CR>>),
              BootStep("probe", "float", <<"D", "I", "A", CR>>),
              BootStep("probe", "float", <<"R", "A", "T", CR>>),
              BootStep("probe", "units", <<"R", "N", "G", CR>>),
              BootStep("probe", "float", <<"T", "A", "R", CR>>),
              BootStep("probe", "units", <<"R", "N", "G", CR>>),
              BootStep("probe", "float", <<"V", "O", "L", CR>>),
              BootStep("probe", "units", <<"R", "N", "G", CR>>),
              BootStep("probe", "text", <<CR>>),
              BootStep("probe", "text", <<CR>>),
              BootStep("probe", "text", <<CR>>)>>
      [] v = "aladdin" ->
            <<BootStep("ctor", "serial", <<>>),
              BootStep("ctor", "frame", TwoDigits(a) \o <<"B", "U", "Z", "1", "1", CR>>),
              BootStep("probe", "frame", TwoDigits(a) \o <<CR>>)>>
      [] v = "Harvard11Elite" ->
            <<BootStep("ctor", "serial", <<>>),
              BootStep("ctor", "version", <<"v", "e", "r", CR>>),
              BootStep("ctor", "unread", <<"p", "o", "l", "l", " ", "O", "N", CR>>),
              BootStep("ctor", "prompt",
                       TwoDigits(a) \o <<"s", "t", "a", "t", "u", "s", CR, "\n">>),
              BootStep("ctor", "prompt",
                       TwoDigits(a) \o <<"c", "v", "o", "l", "u", "m", "e", CR, "\n">>),
              BootStep("ctor", "prompt",
                       TwoDigits(a) \o <<"c", "t", "v", "o", "l", "u", "m", "e", CR, "\n">>),
              BootStep("probe", "prompt",
                       TwoDigits(a) \o <<"s", "t", "a", "t", "u", "s", CR, "\n">>)>>

\* what the line does at one exchange: the device answers, the device is
\* silent (off, cable out), a byte that is not UTF-8 arrives, the device
\* reports an alarm (AladdinPump only: A?R after power-up)
Conditions(v) == IF v = "aladdin" THEN {"ok", "silent", "garbage", "alarm"}
                 ELSE {"ok", "silent", "garbage"}

\* the bytes an AladdinPump at address a reads in each condition
AlaReply(a, cond) ==
    CASE cond = "ok" -> Frame(a, <<"S">>, <<>>)
      [] cond = "silent" -> <<>>
      [] cond = "garbage" -> <<BadByte>>
      [] cond = "alarm" -> Frame(a, <<"A", "?", "R">>, <<>>)

\* serial ports of the dialog: an open one, or None when serial.Serial failed
Ports == {"open", None}

\* the exception a step ends with, NoExc if it ends normally
StepOutcome(v, a, s, cond, port) ==
    CASE s.op = "none" -> NoExc
      [] s.op = "serial" -> IF port = None THEN "AttributeError" ELSE NoExc
      [] s.op = "frame" -> send_command(AlaReply(a, cond)).exc
      [] s.op = "version" ->
            IF cond = "garbage" THEN "UnicodeDecodeError"
            ELSE IF cond = "silent" THEN "SyringePumpException"
            ELSE NoExc
      [] s.op = "unread" -> NoExc
      [] s.op = "prompt" ->
            IF cond = "garbage" THEN "UnicodeDecodeError"
            ELSE IF cond = "silent" THEN "InvalidAnswer"
            ELSE NoExc
      [] s.op = "text" -> NoExc
      [] s.op = "float" -> IF cond = "ok" THEN NoExc ELSE "ValueError"
      [] s.op = "units" -> IF cond = "ok" THEN NoExc ELSE "InvalidAnswer"

\* the classes derived from SyringePumpException
SyringePumpExceptions ==
    {"SyringePumpException", "ValueOOR", "UnknownCommand", "NotRunning", "NotStopped",
     "InvalidAnswer", "Alarm", "InvalidCommand", "Unforeseen", "ReadTimeout"}

AddressesOf(v) == IF v \in {"aladdin", "Harvard11Elite"} THEN Addresses ELSE {0}

\* self.pumps.append(pump), and on to the next entry if there is one
Appended(b) == [b EXCEPT !.pumps = Append(b.pumps, b.pump), !.pc = "next"]

\* the attempt got through the constructor and the probe: success = True,
\* break, and the while loop ends
AttemptSucceeds(b) == Appended([b EXCEPT !.success = TRUE, !.how = "attempt"])

\* an except clause that forgets pump = None
OnPumpExceptionKeepsPump(b) ==
    IF b.tries + 1 < Attempts
    THEN [b EXCEPT !.tries = b.tries + 1, !.step = 1,
                   !.sinceAsked = b.sinceAsked + 1]
    ELSE [b EXCEPT !.tries = b.tries + 1, !.pc = "ask"]

\* except SyringePumpException: pump = None, then the next turn of the for
\* loop, or the question once the three turns are spent
OnPumpException(b) ==
    IF b.tries + 1 < Attempts
    THEN [b EXCEPT !.pump = None, !.tries = b.tries + 1, !.step = 1,
                   !.sinceAsked = b.sinceAsked + 1]
    ELSE [b EXCEPT !.pump = None, !.tries = b.tries + 1, !.pc = "ask"]

\* any other exception leaves StartDialog.__init__
Escapes(b, e) == [b EXCEPT !.pc = "raised", !.exc = e]

\* a step of the attempt went through
StepDone(b, steps) ==
    LET ctorDone == steps[b.step].part = "ctor"
                        /\ (b.step = Len(steps) \/ steps[b.step + 1].part = "probe")
        c == [b EXCEPT !.step = b.step + 1,
                       !.pump = IF ctorDone THEN "object" ELSE b.pump]
    IN  IF b.step = Len(steps) THEN AttemptSucceeds(c) ELSE c

InitBoot ==
    /\ vendor \in Vendors
    /\ dev \in {d \in DeviceStates : d.diam = 10000}
    /\ prev = NoCall
    /\ last = NoCall @@ [sent |-> <<>>]
    /\ ParseIdle
    /\ PanelIdle
    /\ StartIdle

\* for pump_conf in ...: the next entry of the configuration
BeginEntry ==
    /\ boot.pc \in {"idle", "next"}
    /\ Len(boot.pumps) < MaxPumps
    /\ vendor' \in Vendors
    /\ address' \in AddressesOf(vendor')
    /\ \E port \in Ports :
          boot' = [boot EXCEPT !.pc = "attempt", !.tries = 0, !.step = 1,
                               !.success = FALSE, !.pump = None, !.port = port,
                               !.yes = 0, !.how = "none", !.sinceAsked = 1]
    /\ wire' = <<>>
    /\ UNCHANGED <<dev, prev, last, parseVars, panelVars, elite>>

\* the configuration has no further entry
EntriesDone ==
    /\ boot.pc \in {"idle", "next"}
    /\ boot' = [boot EXCEPT !.pc = "done"]
    /\ UNCHANGED <<pumpVars, parseVars, panelVars, address, wire, elite>>

\* one step of model(...) or of pump.is_running()
Exchange ==
    /\ boot.pc = "attempt"
    /\ LET steps == BootSteps(vendor, address)
           s     == steps[boot.step]
       IN  /\ wire' = IF s.text # <<>> THEN s.text ELSE wire
           /\ \E cond \in Conditions(vendor) :
                 LET After(e) ==
                         IF e = NoExc THEN StepDone(boot, steps)
                         ELSE IF e \in SyringePumpExceptions THEN OnPumpException(boot)
                         ELSE Escapes(boot, e)
                 IN  boot' = After(StepOutcome(vendor, address, s, cond, boot.port))
    /\ UNCHANGED <<pumpVars, parseVars, panelVars, address, elite>>

\* QMessageBox.question answered Yes: three more attempts
AnswerYes ==
    /\ boot.pc = "ask"
    /\ boot.yes < MaxYes
    /\ boot' = [boot EXCEPT !.pc = "attempt", !.tries = 0, !.step = 1,
                            !.yes = boot.yes + 1, !.sinceAsked = 1]
    /\ UNCHANGED <<pumpVars, parseVars, panelVars, address, wire, elite>>

\* QMessageBox.question answered No: success = True, the entry is given up
AnswerNo ==
    /\ boot.pc = "ask"
    /\ boot' = Appended([boot EXCEPT !.success = TRUE, !.how = "no"])
    /\ UNCHANGED <<pumpVars, parseVars, panelVars, address, wire, elite>>

NextBoot == BeginEntry \/ EntriesDone \/ Exchange \/ AnswerYes \/ AnswerNo

SpecBoot == InitBoot /\ [][NextBoot]_vars

\* the operator does answer the question, and the calls of an attempt return
SpecBootLive == SpecBoot /\ WF_vars(NextBoot)

\* C15: bring-up lets no exception out of StartDialog.__init__, whatever
\* makes the constructor or the probe fail, and it never makes a 4th
\* attempt in a row without asking the operator first.
C15_BringUpNeverRaises == boot.pc # "raised" /\ boot.sinceAsked <= Attempts

\* what does hold: the question comes after three failed attempts in a row
AsksAfterThreeFailures ==
    /\ boot.sinceAsked <= Attempts
    /\ boot.pc = "attempt" => boot.tries < Attempts
    /\ boot.pc = "ask" => boot.tries = Attempts

\* the entry appended last to self.pumps
LastPump == boot.pumps[Len(boot.pumps)]

\* the while loop of the current entry has ended and its pump was appended
EntryEnded == boot.pc \in {"next", "done"} /\ boot.how # "none"

BringUpOutcome ==
    /\ boot.success => boot.pc \in {"next", "done"}
    /\ boot.how = "attempt" => boot.step = Len(BootSteps(vendor, address)) + 1
    /\ EntryEnded =>
          /\ LastPump = "object" <=> boot.how = "attempt"
          /\ LastPump = None <=> boot.how = "no"

\* C16: an attempt counts as successful only when the constructor and the
\* is_running() probe have both returned; no attempt follows a successful
\* one; a connected pump is appended exactly when an attempt succeeded and
\* None exactly when the operator answered No; and with an operator who
\* ends up answering No, the loop of every entry comes to an end.
C16_BringUpEndsWithPumpOrNone ==
    /\ []BringUpOutcome
    /\ (boot.pc = "attempt") ~> (boot.pc \in {"next", "done", "raised"})

\* an entry given up with No after a retry, then an entry that connected
C16_Reached ==
    /\ boot.pc = "done" /\ Len(boot.pumps) = 2
    /\ boot.pumps[1] = None /\ boot.pumps[2] = "object"

\* C20: every text AladdinPump and Harvard11ElitePump write to the
\* transport, the writes of their constructors included, starts with the
\* pump's address as two zero-padded decimal digits, for addresses 0..99.
C20_WritesCarryAddress ==
    (vendor \in {"aladdin", "Harvard11Elite"} /\ wire # <<>>) =>
        (Len(wire) >= 2 /\ SubSeq(wire, 1, 2) = TwoDigits(address))

\* what does hold: the writes that go through send_command / _send_command
AddressedWritesCarryAddress ==
    (/\ vendor \in {"aladdin", "Harvard11Elite"} /\ wire # <<>>
     /\ wire \notin {<<"v", "e", "r", CR>>, <<"p", "o", "l", "l", " ", "O", "N", CR>>}) =>
        (Len(wire) >= 2 /\ SubSeq(wire, 1, 2) = TwoDigits(address))

-----------------------------------------------------------------------------
(* SpecDialog: StartDialog from the pump bring-up on.  Once every entry of *)
(* the configuration has its pump or its None, __init__ restores the bolus *)
(* rates saved by the previous session, the operator edits the drug list   *)
(* and accepts, and the main screen builds one panel per drug.             *)

\* the list of pumps has an entry that is None
HasNone(ps) == \E i \in 1..Len(ps) : ps[i] = None

\* a step of the dialog that reads an attribute of each of the first n
\* entries of self.pumps: AttributeError at the first that is None
ReadsPumps(n) ==
    IF HasNone(SubSeq(boot.pumps, 1, n)) THEN "AttributeError" ELSE NoExc

\* the step is over: on to the state next, or out with the exception
DialogStep(op, a, e, next) ==
    /\ CallDone(op, a, 0, Outcome(dev, e, None, <<>>))
    /\ boot' = IF e = NoExc THEN [boot EXCEPT !.pc = next] ELSE Escapes(boot, e)
    /\ UNCHANGED <<vendor, parseVars, panelVars, address, wire, elite>>

Min(a, b) == IF a < b THEN a ELSE b

\* for prev_pump, pump in zip(prev_values["pumps"], self.pumps):
\* pump.bolus_rate = ..., with saved entries from none to one per pump
RestoreBolusRates ==
    /\ boot.pc = "done"
    /\ \E saved \in 0..MaxPumps :
          DialogStep("restore_bolus_rates", saved,
                     ReadsPumps(Min(saved, Len(boot.pumps))), "dialog")

\* the pumps tab: names and the configuration panel of the pumps that are
\* not None
SetupPumpsTab ==
    /\ boot.pc = "dialog"
    /\ DialogStep("setup_pumps_tab", 0, NoExc, "shown")

\* add_entry, edit_entry: pumps=[p.display_name for p in self.pumps]
AddEntry ==
    /\ boot.pc = "shown"
    /\ DialogStep("add_entry", 0, ReadsPumps(Len(boot.pumps)), "shown")

\* accept: "pumps": [{"bolus_rate": pump.bolus_rate, ...} for pump in self.pumps]
Accept ==
    /\ boot.pc = "shown"
    /\ DialogStep("accept", 0, ReadsPumps(Len(boot.pumps)), "accepted")

\* the main screen, for a drug assigned to pump k: a DrugPumpPanel when
\* self.pumps[drug.pump] is not None, a DrugPanel otherwise
MainScreen ==
    /\ boot.pc = "accepted"
    /\ \E k \in 1..Len(boot.pumps) :
          DialogStep("main_screen", k, NoExc, "accepted")

NextDialog ==
    \/ BeginEntry
    \/ EntriesDone
    \/ Exchange
    \/ AnswerYes
    \/ AnswerNo
    \/ RestoreBolusRates
    \/ SetupPumpsTab
    \/ AddEntry
    \/ Accept
    \/ MainScreen

SpecDialog == InitBoot /\ [][NextDialog]_vars

DialogSteps ==
    {"restore_bolus_rates", "setup_pumps_tab", "add_entry", "accept", "main_screen"}

\* C29: no step of StartDialog after the bring-up, nor the main screen,
\* reads an attribute of or calls a method on a None entry of self.pumps.
C29_NoneEntryNeverUsed ==
    last.op \in DialogSteps => last.exc # "AttributeError"

\* what does hold: the pumps tab and the main screen skip the None entries
NoneEntrySkippedByTabAndMainScreen ==
    last.op \in {"setup_pumps_tab", "main_screen"} => last.exc = NoExc

====
